---------------------------- MODULE Spec2Model ----------------------------
(***************************************************************************)
(* Codect: heuristic detection of AI-generated source code.                *)
(*                                                                         *)
(* The module models the improved Python and JavaScript engines            *)
(* (packages/core/python), their weighted classifiers, and the boundary    *)
(* shells that dispatch on the language selector (packages/api/main.py     *)
(* and packages/core/python/analyze.py).                                   *)
(*                                                                         *)
(* Numbers.  Python floats are modelled in fixed point:                    *)
(*   - a signal value v is the integer v * UNIT       (thousandths),       *)
(*   - a weight w is the integer w * 10               (tenths),            *)
(*   - a score s is the integer s * 10 * UNIT         (1e-4),              *)
(*   - a probability p is the integer p * PROB_ONE    (1e-4).              *)
(* Text.  Source text is a TLA+ string; SubSeq(s, i, i) is its i-th        *)
(* character.                                                              *)
(***************************************************************************)
EXTENDS Integers, Sequences, FiniteSets, TLC

VARIABLES
    req,      \* request id -> the request's local state (shell, input, pc, locals)
    cv,       \* classifier harness: the signal vector handed to classify
    cw,       \* classifier harness: which classifier instance ("python" / "javascript")
    cres,     \* classifier harness: what classify returned (or raised) for cv
    cprev,    \* classifier harness: the vector and result before the last edit
    cedits,   \* classifier harness: how many edits were made to cv
    ext,      \* the older analyzers: one feature extractor object and what it returned
    sig       \* signal harness: a text built line by line and its signals

vars == <<req, cv, cw, cres, cprev, cedits, ext, sig>>

-----------------------------------------------------------------------------
(* Bounds of the model.                                                    *)

NReq == 2        \* concurrently served requests
MaxEdits == 2    \* edits applied to a signal vector in the classifier harness

-----------------------------------------------------------------------------
(* Fixed-point units.                                                      *)

UNIT == 1000
PROB_ONE == 10000

(* Tagged signal values: Python's bool, int, float and str.               *)
BoolV(b) == [t |-> "bool", n |-> IF b THEN 1 ELSE 0, s |-> ""]
IntV(i) == [t |-> "int", n |-> i, s |-> ""]
FloatV(x) == [t |-> "float", n |-> x, s |-> ""]
StrV(s) == [t |-> "str", n |-> 0, s |-> s]

(* Call(k, a) is operator k applied to the arguments a (defined after the   *)
(* analyzers): the analyzers reach the operators below through this one    *)
(* recursive operator.                                                     *)
RECURSIVE Call(_, _)

RECURSIVE SumOver(_, _)
SumOver(S, f) ==
    IF S = {} THEN 0
    ELSE LET k == CHOOSE k \in S : TRUE
         IN f[k] + SumOver(S \ {k}, f)

Max2(a, b) == IF a >= b THEN a ELSE b
Min2(a, b) == IF a <= b THEN a ELSE b

-----------------------------------------------------------------------------
(* Text: characters, str methods.                                          *)

Ch(s, i) == SubSeq(s, i, i)
Chars(s) == {Ch(s, i) : i \in 1..Len(s)}

AsciiLower == "abcdefghijklmnopqrstuvwxyz"
AsciiUpper == "ABCDEFGHIJKLMNOPQRSTUVWXYZ"
AsciiDigits == "0123456789"
LowerChars == Chars(AsciiLower)
UpperChars == Chars(AsciiUpper)
DigitChars == Chars(AsciiDigits)
WordChars == LowerChars \cup UpperChars \cup DigitChars \cup {"_"}
SpaceChars == {" ", "\t", "\n", "\r", "\f"}

(* The grave accent, which a TLA+ string cannot hold: the model's texts    *)
(* and patterns write it as this character.                                *)
BACKTICK == "^"

(* The position of character c in string s (0 when absent).                *)
IndexIn(s, c) ==
    IF c \in Chars(s) THEN CHOOSE i \in 1..Len(s) : Ch(s, i) = c ELSE 0

LowerCh(c) == IF c \in UpperChars THEN Ch(AsciiLower, IndexIn(AsciiUpper, c)) ELSE c

(* str.lower                                                               *)
RECURSIVE Lower(_)
Lower(s) ==
    IF Len(s) = 0 THEN ""
    ELSE IF Len(s) = 1 THEN LowerCh(s)
    ELSE LET h == Len(s) \div 2
         IN Lower(SubSeq(s, 1, h)) \o Lower(SubSeq(s, h + 1, Len(s)))

(* str.lstrip, str.rstrip, str.strip                                       *)
RECURSIVE LStrip(_)
LStrip(s) == IF s # "" /\ Head(s) \in SpaceChars THEN LStrip(Tail(s)) ELSE s

RECURSIVE RStrip(_)
RStrip(s) ==
    IF s # "" /\ Ch(s, Len(s)) \in SpaceChars
    THEN RStrip(SubSeq(s, 1, Len(s) - 1)) ELSE s

Strip(s) == LStrip(RStrip(s))

(* str.startswith, str.endswith (one prefix; a set of them)                *)
StartsWith(s, p) == Len(p) <= Len(s) /\ SubSeq(s, 1, Len(p)) = p
EndsWith(s, p) == Len(p) <= Len(s) /\ SubSeq(s, Len(s) - Len(p) + 1, Len(s)) = p
StartsWithAny(s, ps) == \E p \in ps : StartsWith(s, p)
EndsWithAny(s, ps) == \E p \in ps : EndsWith(s, p)

(* str.count of a single character                                         *)
CountChar(s, c) == Cardinality({i \in 1..Len(s) : Ch(s, i) = c})

(* str.splitlines: the lines of s, split at "\n"; a final "\n" opens no    *)
(* further line, and the empty string has no lines.                        *)
RECURSIVE SplitFrom(_, _)
SplitFrom(s, start) ==
    IF start > Len(s) THEN <<>>
    ELSE LET breaks == {i \in start..Len(s) : Ch(s, i) = "\n"}
         IN IF breaks = {} THEN <<SubSeq(s, start, Len(s))>>
            ELSE LET i == CHOOSE b \in breaks : \A c \in breaks : b <= c
                 IN <<SubSeq(s, start, i - 1)>> \o SplitFrom(s, i + 1)

SplitLines(s) == SplitFrom(s, 1)

-----------------------------------------------------------------------------
(* Regular expressions (Python's re): a pattern is a tree of the nodes     *)
(* below, and Match lists the positions at which a match starting at       *)
(* position i can end, in the order the backtracking matcher tries them;   *)
(* the first is the match re takes.                                        *)

Lit(w) == [k |-> "lit", w |-> w]                 \* the literal text w
In(cs) == [k |-> "set", cs |-> cs, neg |-> FALSE]  \* [...]
NotIn(cs) == [k |-> "set", cs |-> cs, neg |-> TRUE] \* [^...]
Cat(rs) == [k |-> "cat", rs |-> rs]              \* r1 r2 ...
Alt(rs) == [k |-> "alt", rs |-> rs]              \* r1 | r2 | ...
Star(r) == [k |-> "star", r |-> r]               \* r*
LazyStar(r) == [k |-> "lazy", r |-> r]           \* r*?
Plus(r) == Cat(<<r, Star(r)>>)                   \* r+
WordB == [k |-> "wb"]                            \* \b
Bol == [k |-> "bol"]                             \* ^ under re.MULTILINE
Eos == [k |-> "eos"]                             \* $
Dot == NotIn({"\n"})                             \* .
Ws == In(SpaceChars)                             \* \s
Word == In(WordChars)                            \* \w
AnyOf(ws) == Alt([i \in 1..Len(ws) |-> Lit(ws[i])])  \* (w1|w2|...)
AnyOfLower(ws) == Alt([i \in 1..Len(ws) |-> Lit(Lower(ws[i]))])

IsWordAt(s, i) == i >= 1 /\ i <= Len(s) /\ Ch(s, i) \in WordChars

(* The end of the longest run of characters of the class r from i on.     *)
RunEnd(r, s, i) ==
    LET stops == {j \in i..Len(s) : (Ch(s, j) \in r.cs) = r.neg}
    IN IF stops = {} THEN Len(s) + 1
       ELSE CHOOSE j \in stops : \A k \in stops : j <= k

(* The ends of r matched from each start of `starts` in turn: a step of    *)
(* the matcher, written as a node so that Match is its one recursion.      *)
Each(r, starts) == [k |-> "each", r |-> r, starts |-> starts]

RECURSIVE Match(_, _, _)
Match(r, s, i) ==
    CASE r.k = "lit" ->
            IF i + Len(r.w) - 1 <= Len(s) /\ SubSeq(s, i, i + Len(r.w) - 1) = r.w
            THEN <<i + Len(r.w)>> ELSE <<>>
      [] r.k = "set" ->
            IF i <= Len(s) /\ ((Ch(s, i) \in r.cs) # r.neg) THEN <<i + 1>> ELSE <<>>
      [] r.k = "cat" ->
            IF r.rs = <<>> THEN <<i>>
            ELSE Match(Each(Cat(Tail(r.rs)), Match(r.rs[1], s, i)), s, i)
      [] r.k = "alt" ->
            IF r.rs = <<>> THEN <<>>
            ELSE Match(r.rs[1], s, i) \o Match(Alt(Tail(r.rs)), s, i)
      [] r.k = "each" ->
            IF Len(r.starts) = 0 THEN <<>>
            ELSE IF Len(r.starts) = 1 THEN Match(r.r, s, r.starts[1])
            ELSE LET h == Len(r.starts) \div 2
                 IN Match(Each(r.r, SubSeq(r.starts, 1, h)), s, i)
                    \o Match(Each(r.r, SubSeq(r.starts, h + 1, Len(r.starts))), s, i)
      [] r.k = "star" ->
            IF r.r.k = "set"
            THEN LET e == RunEnd(r.r, s, i)
                 IN [n \in 1..(e - i + 1) |-> e - n + 1]
            ELSE Match(Each(r, SelectSeq(Match(r.r, s, i), LAMBDA j : j > i)), s, i)
                 \o <<i>>
      [] r.k = "lazy" ->
            IF r.r.k = "set"
            THEN LET e == RunEnd(r.r, s, i)
                 IN [n \in 1..(e - i + 1) |-> i + n - 1]
            ELSE <<i>>
                 \o Match(Each(r, SelectSeq(Match(r.r, s, i), LAMBDA j : j > i)), s, i)
      [] r.k = "wb" -> IF IsWordAt(s, i - 1) # IsWordAt(s, i) THEN <<i>> ELSE <<>>
      [] r.k = "bol" -> IF i = 1 \/ Ch(s, i - 1) = "\n" THEN <<i>> ELSE <<>>
      [] r.k = "eos" ->
            IF i = Len(s) + 1 \/ (i = Len(s) /\ Ch(s, i) = "\n") THEN <<i>> ELSE <<>>

(* pattern.search(s) is not None                                           *)
Search(r, s) ==
 \E i \in 1..(Len(s) + 1) : Match(r, s, i) # <<>>

(* re.match(r, s) is not None                                              *)
MatchStart(r, s) ==
 Match(r, s, 1) # <<>>

(* pattern.findall(s): the spans [b, e) of the non-overlapping matches,    *)
(* leftmost first.                                                         *)
RECURSIVE FindAllFrom(_, _, _)
FindAllFrom(r, s, pos) ==
    LET starts == {i \in pos..(Len(s) + 1) : Match(r, s, i) # <<>>}
    IN IF starts = {} THEN <<>>
       ELSE LET b == CHOOSE i \in starts : \A j \in starts : i <= j
                e == Match(r, s, b)[1]
            IN << [b |-> b, e |-> e] >>
               \o FindAllFrom(r, s, IF e = b THEN b + 1 ELSE e)

FindAll(r, s) ==
 FindAllFrom(r, s, 1)

-----------------------------------------------------------------------------
(* The weighted classifiers: ImprovedClassifier and ImprovedJSClassifier.  *)

(* ImprovedClassifier.__init__: self.weights, in tenths.                   *)
PyWeights ==
    [ import_organization_score |-> 25,
      indentation_consistency   |-> 20,
      quote_consistency         |-> 15,
      pattern_repetition_score  |-> 30,
      generic_example_score     |-> 35,
      perfect_pep8_score        |-> 20,
      uniform_complexity        |-> 25,
      has_todo_comments         |-> -30,
      has_debug_prints          |-> -25,
      has_commented_code        |-> -20,
      has_magic_numbers         |-> -15,
      has_long_lines            |-> -10,
      has_trailing_whitespace   |-> -20,
      single_letter_var_ratio   |-> -10,
      function_length_variance  |-> -15,
      has_main_guard            |-> -5,
      has_docstrings            |-> 5,
      uses_comprehensions       |-> -5,
      uses_f_strings            |-> 0,
      meaningful_name_ratio     |-> -3 ]

(* ImprovedJSClassifier.__init__: self.weights, in tenths.                 *)
JsWeights ==
    [ function_style_consistency |-> 20,
      semicolon_consistency      |-> 15,
      quote_consistency          |-> 15,
      indentation_consistency    |-> 20,
      pattern_repetition_score   |-> 30,
      generic_example_score      |-> 35,
      placeholder_score          |-> 30,
      has_example_data           |-> 25,
      excessive_comments_ratio   |-> 20,
      has_console_log            |-> -25,
      has_debugger               |-> -30,
      has_todo_comments          |-> -30,
      has_commented_code         |-> -20,
      has_alert                  |-> -20,
      has_eval                   |-> -15,
      has_var_declarations       |-> -10,
      has_long_lines             |-> -10,
      has_callback_hell          |-> -15,
      single_letter_var_ratio    |-> -10,
      uses_arrow_functions       |-> 3,
      uses_async_await           |-> 3,
      uses_destructuring         |-> 2,
      uses_template_literals     |-> 2,
      uses_jquery                |-> -5,
      meaningful_name_ratio      |-> -5 ]

WeightsOf(lang) == IF lang = "python" THEN PyWeights ELSE JsWeights

(* Mutant of NumericValue: the `continue` for non-numeric values is        *)
(* missing and a string counts as 1.0.                                     *)
NumericValueNoSkip(value) ==
    CASE value.t = "bool"  -> [skip |-> FALSE, x |-> IF value.n = 1 THEN UNIT ELSE 0]
      [] value.t = "int"   -> [skip |-> FALSE, x |-> value.n * UNIT]
      [] value.t = "float" -> [skip |-> FALSE, x |-> value.n]
      [] OTHER             -> [skip |-> FALSE, x |-> UNIT]

(* classify, the body of the loop: isinstance(value, bool) -> 1.0 / 0.0,   *)
(* isinstance(value, (int, float)) -> float(value), anything else is       *)
(* skipped by `continue` (the flag `skip`).                                *)
NumericValue(value) ==
    CASE value.t = "bool"  -> [skip |-> FALSE, x |-> IF value.n = 1 THEN UNIT ELSE 0]
      [] value.t = "int"   -> [skip |-> FALSE, x |-> value.n * UNIT]
      [] value.t = "float" -> [skip |-> FALSE, x |-> value.n]
      [] OTHER             -> [skip |-> TRUE, x |-> 0]

(* classify, the loop `for feature, value in features.items()`: the score  *)
(* after the items `keys` still to visit, starting from `score`.           *)
RECURSIVE ScoreLoop(_, _, _, _)
ScoreLoop(features, weights, keys, score) ==
    IF keys = {} THEN score
    ELSE LET feature == CHOOSE k \in keys : TRUE
             value == features[feature]
             nv == NumericValue(value)
         IN IF feature \in DOMAIN weights /\ ~nv.skip
            THEN ScoreLoop(features, weights, keys \ {feature},
                           score + weights[feature] * nv.x)
            ELSE ScoreLoop(features, weights, keys \ {feature}, score)

(* math.exp in fixed point (unit PROB_ONE).  ExpTaylor(f) is e^f for       *)
(* 0 <= f < 1, the series summed until its term vanishes; ExpNeg(y) is     *)
(* e^(-y) for y >= 0, by e^(-y) = e^(-frac y) * (e^-1)^(floor y).          *)
EINV == 3679

RECURSIVE ExpTaylor(_, _, _)
ExpTaylor(f, n, term) ==
    IF term = 0 THEN 0
    ELSE term + ExpTaylor(f, n + 1, (term * f) \div ((n + 1) * PROB_ONE))

RECURSIVE MulPow(_, _)
MulPow(r, k) ==
    IF k = 0 \/ r = 0 THEN r ELSE MulPow((r * EINV) \div PROB_ONE, k - 1)

ExpNeg(y) ==
    MulPow((PROB_ONE * PROB_ONE) \div ExpTaylor(y % PROB_ONE, 0, PROB_ONE),
           y \div PROB_ONE)

(* math.exp(x) raises OverflowError for x > 709.782712893384; with         *)
(* x = -score / 10 that is -score > 7097.8271 (score in 1e-4).             *)
EXP_OVERFLOW == 70978271

MathExpRaises(score) == -score > EXP_OVERFLOW

(* Mutant of Sigmoid: the sign of the exponent is lost,                    *)
(* 1 / (1 + math.exp(score / 10)).                                         *)
SigmoidPosExp(score) ==
    IF score < 0
    THEN (PROB_ONE * PROB_ONE) \div (PROB_ONE + ExpNeg((-score) \div 10))
    ELSE LET en == ExpNeg(score \div 10)
         IN (PROB_ONE * en) \div (PROB_ONE + en)

(* probability = 1 / (1 + math.exp(-score / 10)).  For a negative score    *)
(* the quotient is taken as e^(-x) / (1 + e^(-x)), x = -score / 10, which  *)
(* is the same number and keeps the fixed-point integers small.            *)
Sigmoid(score) ==
    IF score >= 0
    THEN (PROB_ONE * PROB_ONE) \div (PROB_ONE + ExpNeg(score \div 10))
    ELSE LET en == ExpNeg((-score) \div 10)
         IN (PROB_ONE * en) \div (PROB_ONE + en)

AI_THRESHOLD == 7000
HUMAN_THRESHOLD == 3000

(* Mutant of LabelOf: the thresholds are inclusive.                        *)
LabelOfInclusive(probability) ==
    IF probability >= AI_THRESHOLD THEN "AI-Generated Code"
    ELSE IF probability <= HUMAN_THRESHOLD THEN "Human-Written Code"
    ELSE "Uncertain (Mixed Signals)"

(* classify, the label: probability > 0.7, probability < 0.3, else.        *)
LabelOf(probability) ==
    IF probability > AI_THRESHOLD THEN "AI-Generated Code"
    ELSE IF probability < HUMAN_THRESHOLD THEN "Human-Written Code"
    ELSE "Uncertain (Mixed Signals)"

NoResult ==
    [raised |-> "", score |-> 0, probability |-> 0, classification |-> ""]

(* ImprovedClassifier.classify / ImprovedJSClassifier.classify: the        *)
(* returned (classification, probability), or the exception raised.  The   *)
(* local `score` is kept in the record.                                    *)
classify(features, weights) ==
    LET score == ScoreLoop(features, weights, DOMAIN features, 0)
    IN IF MathExpRaises(score)
       THEN [NoResult EXCEPT !.raised = "OverflowError", !.score = score]
       ELSE LET probability == Sigmoid(score)
            IN [raised |-> "", score |-> score, probability |-> probability,
                classification |-> LabelOf(probability)]

-----------------------------------------------------------------------------
(* The signal dictionaries the extractors start from.                      *)

(* Mutant of _get_default_features: has_docstrings is left at true.         *)
DefaultFeaturesStale ==
    [ has_main_guard            |-> BoolV(FALSE),
      has_docstrings            |-> BoolV(TRUE),
      function_length_variance  |-> FloatV(0),
      nested_function_depth     |-> IntV(0),
      uses_comprehensions       |-> BoolV(FALSE),
      uses_walrus_operator      |-> BoolV(FALSE),
      uses_f_strings            |-> BoolV(FALSE),
      import_organization_score |-> FloatV(0),
      naming_consistency_score  |-> FloatV(0),
      uses_snake_case_ratio     |-> FloatV(0),
      meaningful_name_ratio     |-> FloatV(0),
      single_letter_var_ratio   |-> FloatV(0),
      avg_name_length           |-> FloatV(0),
      indentation_consistency   |-> FloatV(0),
      quote_consistency         |-> FloatV(0),
      spacing_consistency       |-> FloatV(0),
      pattern_repetition_score  |-> FloatV(0),
      has_todo_comments         |-> BoolV(FALSE),
      has_debug_prints          |-> BoolV(FALSE),
      has_commented_code        |-> BoolV(FALSE),
      has_magic_numbers         |-> BoolV(FALSE),
      has_long_lines            |-> BoolV(FALSE),
      has_trailing_whitespace   |-> BoolV(FALSE),
      inconsistent_returns      |-> BoolV(FALSE),
      perfect_pep8_score        |-> FloatV(0),
      generic_example_score     |-> FloatV(0),
      over_explanation_score    |-> FloatV(0),
      placeholder_score         |-> FloatV(0),
      uniform_complexity        |-> FloatV(0) ]

(* Mutant of _get_default_features: the key has_long_lines is missing.     *)
DefaultFeaturesMissingKey ==
    [ has_main_guard            |-> BoolV(FALSE),
      has_docstrings            |-> BoolV(FALSE),
      function_length_variance  |-> FloatV(0),
      nested_function_depth     |-> IntV(0),
      uses_comprehensions       |-> BoolV(FALSE),
      uses_walrus_operator      |-> BoolV(FALSE),
      uses_f_strings            |-> BoolV(FALSE),
      import_organization_score |-> FloatV(0),
      naming_consistency_score  |-> FloatV(0),
      uses_snake_case_ratio     |-> FloatV(0),
      meaningful_name_ratio     |-> FloatV(0),
      single_letter_var_ratio   |-> FloatV(0),
      avg_name_length           |-> FloatV(0),
      indentation_consistency   |-> FloatV(0),
      quote_consistency         |-> FloatV(0),
      spacing_consistency       |-> FloatV(0),
      pattern_repetition_score  |-> FloatV(0),
      has_todo_comments         |-> BoolV(FALSE),
      has_debug_prints          |-> BoolV(FALSE),
      has_commented_code        |-> BoolV(FALSE),
      has_magic_numbers         |-> BoolV(FALSE),
      has_trailing_whitespace   |-> BoolV(FALSE),
      inconsistent_returns      |-> BoolV(FALSE),
      perfect_pep8_score        |-> FloatV(0),
      generic_example_score     |-> FloatV(0),
      over_explanation_score    |-> FloatV(0),
      placeholder_score         |-> FloatV(0),
      uniform_complexity        |-> FloatV(0) ]

(* ImprovedPythonAnalyzer._get_default_features.                           *)
_get_default_features ==
    [ has_main_guard            |-> BoolV(FALSE),
      has_docstrings            |-> BoolV(FALSE),
      function_length_variance  |-> FloatV(0),
      nested_function_depth     |-> IntV(0),
      uses_comprehensions       |-> BoolV(FALSE),
      uses_walrus_operator      |-> BoolV(FALSE),
      uses_f_strings            |-> BoolV(FALSE),
      import_organization_score |-> FloatV(0),
      naming_consistency_score  |-> FloatV(0),
      uses_snake_case_ratio     |-> FloatV(0),
      meaningful_name_ratio     |-> FloatV(0),
      single_letter_var_ratio   |-> FloatV(0),
      avg_name_length           |-> FloatV(0),
      indentation_consistency   |-> FloatV(0),
      quote_consistency         |-> FloatV(0),
      spacing_consistency       |-> FloatV(0),
      pattern_repetition_score  |-> FloatV(0),
      has_todo_comments         |-> BoolV(FALSE),
      has_debug_prints          |-> BoolV(FALSE),
      has_commented_code        |-> BoolV(FALSE),
      has_magic_numbers         |-> BoolV(FALSE),
      has_long_lines            |-> BoolV(FALSE),
      has_trailing_whitespace   |-> BoolV(FALSE),
      inconsistent_returns      |-> BoolV(FALSE),
      perfect_pep8_score        |-> FloatV(0),
      generic_example_score     |-> FloatV(0),
      over_explanation_score    |-> FloatV(0),
      placeholder_score         |-> FloatV(0),
      uniform_complexity        |-> FloatV(0) ]

(* The `features = {...}` initialisers of the five Python extractors.      *)
PyStructuralInit ==
    [ has_main_guard            |-> BoolV(FALSE),
      has_docstrings            |-> BoolV(FALSE),
      function_length_variance  |-> FloatV(0),
      nested_function_depth     |-> IntV(0),
      uses_comprehensions       |-> BoolV(FALSE),
      uses_walrus_operator      |-> BoolV(FALSE),
      uses_f_strings            |-> BoolV(FALSE),
      import_organization_score |-> FloatV(0) ]

PyNamingInit ==
    [ naming_consistency_score  |-> FloatV(0),
      uses_snake_case_ratio     |-> FloatV(0),
      meaningful_name_ratio     |-> FloatV(0),
      single_letter_var_ratio   |-> FloatV(0),
      avg_name_length           |-> FloatV(0) ]

PyConsistencyInit ==
    [ indentation_consistency   |-> FloatV(0),
      quote_consistency         |-> FloatV(0),
      spacing_consistency       |-> FloatV(0),
      pattern_repetition_score  |-> FloatV(0) ]

PySmellInit ==
    [ has_todo_comments         |-> BoolV(FALSE),
      has_debug_prints          |-> BoolV(FALSE),
      has_commented_code        |-> BoolV(FALSE),
      has_magic_numbers         |-> BoolV(FALSE),
      has_long_lines            |-> BoolV(FALSE),
      has_trailing_whitespace   |-> BoolV(FALSE),
      inconsistent_returns      |-> BoolV(FALSE) ]

PyAiInit ==
    [ perfect_pep8_score        |-> FloatV(0),
      generic_example_score     |-> FloatV(0),
      over_explanation_score    |-> FloatV(0),
      placeholder_score         |-> FloatV(0),
      uniform_complexity        |-> FloatV(0) ]

(* The `features = {...}` initialisers of the six JavaScript extractors.   *)
JsStructuralInit ==
    [ uses_arrow_functions       |-> BoolV(FALSE),
      uses_async_await           |-> BoolV(FALSE),
      uses_destructuring         |-> BoolV(FALSE),
      uses_template_literals     |-> BoolV(FALSE),
      uses_spread_operator       |-> BoolV(FALSE),
      uses_optional_chaining     |-> BoolV(FALSE),
      has_iife                   |-> BoolV(FALSE),
      function_style_consistency |-> FloatV(0),
      import_export_usage        |-> BoolV(FALSE),
      uses_strict_mode           |-> BoolV(FALSE) ]

JsNamingInit ==
    [ uses_camelCase_ratio       |-> FloatV(0),
      uses_snake_case_ratio      |-> FloatV(0),
      meaningful_name_ratio      |-> FloatV(0),
      single_letter_var_ratio    |-> FloatV(0),
      avg_name_length            |-> FloatV(0),
      uses_dollar_sign           |-> BoolV(FALSE),
      uses_underscore_prefix     |-> BoolV(FALSE) ]

JsConsistencyInit ==
    [ semicolon_consistency      |-> FloatV(0),
      quote_consistency          |-> FloatV(0),
      indentation_consistency    |-> FloatV(0),
      bracket_style_consistency  |-> FloatV(0),
      pattern_repetition_score   |-> FloatV(0) ]

JsSmellInit ==
    [ has_console_log            |-> BoolV(FALSE),
      has_debugger               |-> BoolV(FALSE),
      has_todo_comments          |-> BoolV(FALSE),
      has_commented_code         |-> BoolV(FALSE),
      has_alert                  |-> BoolV(FALSE),
      has_eval                   |-> BoolV(FALSE),
      has_var_declarations       |-> BoolV(FALSE),
      has_magic_strings          |-> BoolV(FALSE),
      has_long_lines             |-> BoolV(FALSE),
      has_callback_hell          |-> BoolV(FALSE) ]

JsAiInit ==
    [ perfect_formatting_score   |-> FloatV(0),
      generic_example_score      |-> FloatV(0),
      placeholder_score          |-> FloatV(0),
      uniform_complexity         |-> FloatV(0),
      has_example_data           |-> BoolV(FALSE),
      excessive_comments_ratio   |-> FloatV(0) ]

JsSpecificInit ==
    [ uses_jquery                |-> BoolV(FALSE),
      uses_react_patterns        |-> BoolV(FALSE),
      uses_node_patterns         |-> BoolV(FALSE),
      uses_typescript_patterns   |-> BoolV(FALSE),
      has_package_json_refs      |-> BoolV(FALSE),
      module_pattern             |-> StrV("none") ]

(* dict.update: the entries of `more` replace or extend those of `d`.      *)
Update(d, more) ==
    [k \in DOMAIN d \cup DOMAIN more |-> IF k \in DOMAIN more THEN more[k] ELSE d[k]]

-----------------------------------------------------------------------------
(* Helpers shared by the two improved analyzers.                           *)

(* a / b on floats, in units of 1 / UNIT.                                  *)
Ratio(a, b) == (a * UNIT) \div b

RECURSIVE SeqMax(_)
SeqMax(q) ==
    IF Len(q) = 0 THEN 0
    ELSE IF Len(q) = 1 THEN q[1]
    ELSE LET h == Len(q) \div 2
         IN Max2(SeqMax(SubSeq(q, 1, h)), SeqMax(SubSeq(q, h + 1, Len(q))))

RECURSIVE SeqSum(_)
SeqSum(q) ==
    IF Len(q) = 0 THEN 0
    ELSE IF Len(q) = 1 THEN q[1]
    ELSE LET h == Len(q) \div 2
         IN SeqSum(SubSeq(q, 1, h)) + SeqSum(SubSeq(q, h + 1, Len(q)))

Count(q, P(_)) == Len(SelectSeq(q, P))

RECURSIVE Flatten(_)
Flatten(qs) ==
    IF Len(qs) = 0 THEN <<>>
    ELSE IF Len(qs) = 1 THEN qs[1]
    ELSE LET h == Len(qs) \div 2
         IN Flatten(SubSeq(qs, 1, h)) \o Flatten(SubSeq(qs, h + 1, Len(qs)))

(* The matched texts of pattern.findall(s) for a pattern without groups.   *)
FindAllText(r, s) ==
    LET spans == Call("FindAll", <<r, s>>)
    IN [i \in 1..Len(spans) |-> SubSeq(s, spans[i].b, spans[i].e - 1)]

(* indent = len(line) - len(line.lstrip()) of the non-blank lines, kept    *)
(* when > 0 (both analyzers' _extract_consistency_metrics).                *)
Indents(lines) ==
    LET nonblank == SelectSeq(lines, LAMBDA line : Strip(line) # "")
        all == [i \in 1..Len(nonblank) |-> Len(nonblank[i]) - Len(LStrip(nonblank[i]))]
    IN SelectSeq(all, LAMBDA indent : indent > 0)

(* _calculate_pattern_repetition, from `if len(patterns) < 5` on: the      *)
(* count of the most frequent trigram over len(patterns), at most 1.0.     *)
Trigram(patterns, i) == SubSeq(patterns, i, i + 2)

PatternRepetition(patterns) ==
    IF Len(patterns) < 5 THEN 0
    ELSE LET starts == 1..(Len(patterns) - 2)
             pattern_counts ==
                 [i \in starts |->
                     Cardinality({j \in starts : Trigram(patterns, j) = Trigram(patterns, i)})]
             max_count == CHOOSE c \in {pattern_counts[i] : i \in starts} :
                              \A i \in starts : pattern_counts[i] <= c
         IN Min2(Ratio(max_count, Len(patterns)), UNIT)

(* _is_snake_case: re.match(r'^[a-z_][a-z0-9_]*$', name)                   *)
_is_snake_case(name) ==
    Call("MatchStart", <<Cat(<<In(LowerChars \cup {"_"}),
                     Star(In(LowerChars \cup DigitChars \cup {"_"})), Eos>>), name>>)

-----------------------------------------------------------------------------
(* ImprovedJavaScriptAnalyzer (packages/core/python/javascript_analyzer.py) *)

(* _is_camelCase: re.match(r'^[a-z][a-zA-Z0-9]*$', name)                   *)
_is_camelCase(name) ==
    Call("MatchStart", <<Cat(<<In(LowerChars),
                     Star(In(LowerChars \cup UpperChars \cup DigitChars)), Eos>>), name>>)

(* function\s+\w+\s*\(   and   function\s*\(                               *)
JsTraditionalFn ==
    Cat(<<Lit("function"), Plus(Ws), Plus(Word), Star(Ws), Lit("(")>>)
JsAnyFn == Cat(<<Lit("function"), Star(Ws), Lit("(")>>)

(* _calculate_function_consistency                                         *)
JsFunctionConsistency(code) ==
    LET traditional == Len(Call("FindAll", <<JsTraditionalFn, code>>))
        arrow == Len(Call("FindAll", <<Lit("=>"), code>>))
        anonymous == Len(Call("FindAll", <<JsAnyFn, code>>)) - traditional
        total == traditional + arrow + anonymous
        max_style == Max2(traditional, Max2(arrow, anonymous))
    IN IF total = 0 THEN 0 ELSE Ratio(max_style, total)

JsAsyncPattern ==
    Alt(<<Cat(<<WordB, Lit("async"), Plus(Ws)>>), Cat(<<Lit("await"), Plus(Ws)>>)>>)
JsDestructurePattern ==
    Alt(<<Cat(<<Lit("const"), Star(Ws), Lit("{"), Plus(NotIn({"}"})), Lit("}"),
                Star(Ws), Lit("=")>>),
          Cat(<<Lit("const"), Star(Ws), Lit("["), Plus(NotIn({"]"})), Lit("]"),
                Star(Ws), Lit("=")>>)>>)
JsTemplatePattern ==
    Cat(<<Lit(BACKTICK), Star(NotIn({BACKTICK})), Lit("${"), Plus(NotIn({"}"})),
          Lit("}"), Star(NotIn({BACKTICK})), Lit(BACKTICK)>>)
JsIifePattern ==
    Cat(<<Lit("("), Star(Ws), Lit("function"), Star(Ws), Lit("("), Star(NotIn({")"})),
          Lit(")"), Star(Ws), Lit("{"), Plus(NotIn({"}"})), Lit("}"), Star(Ws),
          Lit(")"), Star(Ws), Lit("(")>>)
JsImportExportPattern ==
    Cat(<<Bol, Star(Ws), AnyOf(<<"import", "export">>), Plus(Ws)>>)
JsStrictPattern ==
    Cat(<<In({"\"", "'"}), Lit("use strict"), In({"\"", "'"})>>)

(* _extract_structural_patterns                                            *)
JsStructuralPatterns(code) ==
    Update(JsStructuralInit,
      [ uses_arrow_functions       |-> BoolV(Call("Search", <<Lit("=>"), code>>)),
        uses_async_await           |-> BoolV(Call("Search", <<JsAsyncPattern, code>>)),
        uses_destructuring         |-> BoolV(Call("Search", <<JsDestructurePattern, code>>)),
        uses_template_literals     |-> BoolV(Call("Search", <<JsTemplatePattern, code>>)),
        uses_spread_operator       |-> BoolV(Call("Search", <<Lit("..."), code>>)),
        uses_optional_chaining     |-> BoolV(Call("Search", <<Lit("?."), code>>)),
        has_iife                   |-> BoolV(Call("Search", <<JsIifePattern, code>>)),
        import_export_usage        |-> BoolV(Call("Search", <<JsImportExportPattern, code>>)),
        uses_strict_mode           |-> BoolV(Call("Search", <<JsStrictPattern, code>>)),
        function_style_consistency |-> FloatV(JsFunctionConsistency(code)) ])

\* var_pattern: (?:var|let|const|function)\s+([a-zA-Z_$][a-zA-Z0-9_$]* )
JsNameChars == LowerChars \cup UpperChars \cup DigitChars \cup {"_", "$"}
JsVarPattern ==
    Cat(<<AnyOf(<<"var", "let", "const", "function">>), Plus(Ws),
          In(LowerChars \cup UpperChars \cup {"_", "$"}), Star(In(JsNameChars))>>)

(* var_pattern.findall(code): the text of the group of each match, which   *)
(* is what follows the last whitespace character of the match.             *)
JsNames(code) ==
    LET spans == Call("FindAll", <<JsVarPattern, code>>)
        start(m) == 1 + CHOOSE j \in m.b..(m.e - 1) :
                            /\ Ch(code, j) \in SpaceChars
                            /\ \A h \in (j + 1)..(m.e - 1) : Ch(code, h) \notin SpaceChars
    IN [i \in 1..Len(spans) |-> SubSeq(code, start(spans[i]), spans[i].e - 1)]

JsMeaningless == {"tmp", "temp", "var", "val", "res", "ret", "obj", "item", "data", "arr"}

(* A variant of the naming ratios that takes a text without names as      *)
(* fully consistent: every one of its (no) names is in camelCase.          *)
JsNamingVacuous(code) ==
    LET names == JsNames(code)
        camelCase_count == Count(names, _is_camelCase)
    IN Update(JsNamingInit,
          [ uses_camelCase_ratio |->
              FloatV(IF names = <<>> THEN UNIT
                     ELSE Ratio(camelCase_count, Len(names))) ])

(* _extract_naming_patterns                                                *)
JsNamingPatterns(code) ==
    LET names == JsNames(code)
        camelCase_count == Count(names, _is_camelCase)
        snake_case_count == Count(names, _is_snake_case)
        single_letter == SelectSeq(names,
                            LAMBDA n : Len(n) = 1 /\ n \notin Chars("ijkxy"))
        meaningful == SelectSeq(names,
                            LAMBDA n : Len(n) > 3 /\ Lower(n) \notin JsMeaningless)
        lengths == [i \in 1..Len(names) |-> Len(names[i])]
    IN IF names = <<>> THEN JsNamingInit
       ELSE Update(JsNamingInit,
          [ uses_camelCase_ratio    |-> FloatV(Ratio(camelCase_count, Len(names))),
            uses_snake_case_ratio   |-> FloatV(Ratio(snake_case_count, Len(names))),
            single_letter_var_ratio |-> FloatV(Ratio(Len(single_letter), Len(names))),
            avg_name_length         |-> FloatV(Ratio(SeqSum(lengths), Len(names))),
            meaningful_name_ratio   |-> FloatV(Ratio(Len(meaningful), Len(names))),
            uses_dollar_sign        |->
                BoolV(\E i \in 1..Len(names) : "$" \in Chars(names[i])),
            uses_underscore_prefix  |->
                BoolV(\E i \in 1..Len(names) : StartsWith(names[i], "_")) ])

(* The lines kept in lines_needing_semicolon.                              *)
JsLinesNeedingSemicolon(lines) ==
    LET stripped == [i \in 1..Len(lines) |-> Strip(lines[i])]
    IN SelectSeq(stripped, LAMBDA st :
          /\ st # ""
          /\ ~EndsWithAny(st, {"{", "}", ";", ",", "//", "/*", "*/"})
          /\ ~StartsWithAny(st, {"//", "/*", "*"}))

JsSemicolonConsistency(lines) ==
    LET needing == JsLinesNeedingSemicolon(lines)
        with_semicolon == Count(needing, LAMBDA line : EndsWith(line, ";"))
    IN IF needing = <<>> THEN 0
       ELSE Ratio(Max2(with_semicolon, Len(needing) - with_semicolon), Len(needing))

JsQuoteConsistency(code) ==
    LET single_quotes ==
            Len(Call("FindAll", <<Cat(<<Lit("'"), Star(NotIn({"'"})), Lit("'")>>), code>>))
        double_quotes ==
            Len(Call("FindAll", <<Cat(<<Lit("\""), Star(NotIn({"\""})), Lit("\"")>>), code>>))
        total_quotes == single_quotes + double_quotes
    IN IF total_quotes > 0
       THEN Ratio(Max2(single_quotes, double_quotes), total_quotes) ELSE 0

JsIndentationConsistency(lines) ==
    LET indents == Indents(lines)
        base_indent ==
            IF \E n \in 1..Len(indents) : indents[n] % 2 = 0 /\ indents[n] % 4 # 0
            THEN 2 ELSE 4
        consistent == \A n \in 1..Len(indents) : indents[n] % base_indent = 0
    IN IF indents = <<>> THEN 0 ELSE IF consistent THEN UNIT ELSE UNIT \div 2

(* _calculate_pattern_repetition: the keywords of each line, in order.     *)
JsKeywordPattern ==
    Cat(<<WordB, AnyOf(<<"if", "for", "while", "function", "const", "let", "var",
                         "return", "class">>), WordB>>)

JsPatterns(lines) ==
    Flatten([i \in 1..Len(lines) |-> Call("FindAllText", <<JsKeywordPattern, lines[i]>>)])

(* _extract_consistency_metrics                                            *)
JsConsistencyMetrics(code, lines) ==
    Update(JsConsistencyInit,
      [ semicolon_consistency    |-> FloatV(JsSemicolonConsistency(lines)),
        quote_consistency        |-> FloatV(JsQuoteConsistency(code)),
        indentation_consistency  |-> FloatV(JsIndentationConsistency(lines)),
        pattern_repetition_score |-> FloatV(PatternRepetition(JsPatterns(lines))) ])

JsConsolePattern == Cat(<<Lit("console."), AnyOf(<<"log", "debug", "warn", "error">>)>>)
JsDebuggerPattern == Cat(<<WordB, Lit("debugger"), Star(Ws), Lit(";")>>)
\* todo_pattern, under re.IGNORECASE: matched against the lowered text
JsTodoPattern ==
    Cat(<<Lit("//"), Star(Ws), AnyOfLower(<<"TODO", "FIXME", "HACK", "XXX", "BUG">>)>>)
JsCommentedCodePattern ==
    Cat(<<Lit("//"), Star(Ws),
          AnyOf(<<"if", "for", "while", "function", "const", "let", "var", "return">>),
          Ws>>)
JsAlertPattern == Cat(<<WordB, Lit("alert"), Star(Ws), Lit("(")>>)
JsEvalPattern == Cat(<<WordB, Lit("eval"), Star(Ws), Lit("(")>>)
JsVarDeclPattern == Cat(<<WordB, Lit("var"), Plus(Ws)>>)
JsCallbackPattern ==
    Cat(<<Lit("function"), Star(Ws), Lit("("), Star(NotIn({")"})), Lit(")"), Star(Ws),
          Lit("{"), Star(NotIn({"}"})), Lit("function"), Star(Ws), Lit("("),
          Star(NotIn({")"})), Lit(")"), Star(Ws), Lit("{")>>)

LongLines(lines) == \E i \in 1..Len(lines) : Len(lines[i]) > 100

(* _extract_code_smell_indicators                                          *)
JsCodeSmellIndicators(code, lines) ==
    Update(JsSmellInit,
      [ has_console_log      |-> BoolV(Call("Search", <<JsConsolePattern, code>>)),
        has_debugger         |-> BoolV(Call("Search", <<JsDebuggerPattern, code>>)),
        has_todo_comments    |-> BoolV(Call("Search", <<JsTodoPattern, Lower(code)>>)),
        has_commented_code   |-> BoolV(Call("Search", <<JsCommentedCodePattern, code>>)),
        has_alert            |-> BoolV(Call("Search", <<JsAlertPattern, code>>)),
        has_eval             |-> BoolV(Call("Search", <<JsEvalPattern, code>>)),
        has_var_declarations |-> BoolV(Call("Search", <<JsVarDeclPattern, code>>)),
        has_long_lines       |-> BoolV(LongLines(lines)),
        has_callback_hell    |-> BoolV(Call("Search", <<JsCallbackPattern, code>>)) ])

\* generic_pattern and placeholder_pattern, under re.IGNORECASE
JsGenericPattern ==
    Cat(<<WordB, AnyOfLower(<<"foo", "bar", "baz", "example", "test", "sample", "demo",
                              "myFunction", "myVariable">>), WordB>>)
JsExampleDataPattern ==
    AnyOf(<<"John Doe", "jane@example.com", "Lorem ipsum", "example.com", "123 Main St">>)
JsPlaceholderPattern ==
    AnyOfLower(<<"Your", "TODO:", "FIXME:", "INSERT", "REPLACE", "your-", "my-">>)

(* generic_matches / max(len(self.lines), 1), at most 1.0                  *)
GenericExampleScore(pattern, code, lines) ==
    Min2(Ratio(Len(Call("FindAll", <<pattern, Lower(code)>>)), Max2(Len(lines), 1)), UNIT)

(* len(placeholder_pattern.findall(self.code)) / 10, at most 1.0           *)
PlaceholderScore(pattern, code) ==
    Min2(Ratio(Len(Call("FindAll", <<pattern, Lower(code)>>)), 10), UNIT)

(* _extract_ai_specific_patterns                                           *)
JsAiSpecificPatterns(code, lines) ==
    LET comment_lines == Count(lines, LAMBDA line : StartsWith(Strip(line), "//"))
        scored ==
          [ generic_example_score |-> FloatV(GenericExampleScore(JsGenericPattern, code, lines)),
            has_example_data      |-> BoolV(Call("Search", <<JsExampleDataPattern, code>>)),
            placeholder_score     |-> FloatV(PlaceholderScore(JsPlaceholderPattern, code)) ]
    IN IF Len(lines) > 0
       THEN Update(Update(JsAiInit, scored),
                   [ excessive_comments_ratio |-> FloatV(Ratio(comment_lines, Len(lines))) ])
       ELSE Update(JsAiInit, scored)

JsJqueryPattern ==
    Alt(<<Cat(<<Lit("$"), Star(Ws), Lit("(")>>), Cat(<<Lit("jQuery"), Star(Ws), Lit("(")>>)>>)
JsReactPattern == AnyOf(<<"useState", "useEffect", "React.", "jsx", "className=">>)
JsNodePattern ==
    Alt(<<Cat(<<Lit("require"), Star(Ws), Lit("(")>>), Lit("module.exports"),
          Lit("process."), Lit("__dirname"), Lit("__filename")>>)
JsTsPattern ==
    Alt(<<Cat(<<Lit("@param"), Star(Ws), Lit("{")>>),
          Cat(<<Lit("@returns"), Star(Ws), Lit("{")>>),
          Lit(": string"), Lit(": number"), Lit(": boolean"),
          Cat(<<Lit("interface"), Plus(Ws), Plus(Word)>>)>>)
JsCommonJsPattern == Alt(<<Lit("module.exports"), Lit("exports.")>>)
JsEs6Pattern ==
    Alt(<<Cat(<<Lit("export"), Plus(Ws), AnyOf(<<"default", "const", "function", "class">>)>>),
          Cat(<<Lit("import"), Plus(Ws), Star(Dot), Plus(Ws), Lit("from")>>)>>)

(* A variant of the module pattern detection that tests the ES pattern     *)
(* before the module-export pattern.                                       *)
JsSpecificEs6First(code) ==
    Update(JsSpecificInit,
      [ uses_jquery              |-> BoolV(Call("Search", <<JsJqueryPattern, code>>)),
        uses_react_patterns      |-> BoolV(Call("Search", <<JsReactPattern, code>>)),
        uses_node_patterns       |-> BoolV(Call("Search", <<JsNodePattern, code>>)),
        uses_typescript_patterns |-> BoolV(Call("Search", <<JsTsPattern, code>>)),
        module_pattern           |->
            IF Call("Search", <<JsEs6Pattern, code>>) THEN StrV("es6")
            ELSE IF Call("Search", <<JsCommonJsPattern, code>>) THEN StrV("commonjs")
            ELSE StrV("none") ])

(* _extract_js_specific_patterns                                           *)
JsSpecificPatterns(code) ==
    Update(JsSpecificInit,
      [ uses_jquery              |-> BoolV(Call("Search", <<JsJqueryPattern, code>>)),
        uses_react_patterns      |-> BoolV(Call("Search", <<JsReactPattern, code>>)),
        uses_node_patterns       |-> BoolV(Call("Search", <<JsNodePattern, code>>)),
        uses_typescript_patterns |-> BoolV(Call("Search", <<JsTsPattern, code>>)),
        module_pattern           |->
            IF Call("Search", <<JsCommonJsPattern, code>>) THEN StrV("commonjs")
            ELSE IF Call("Search", <<JsEs6Pattern, code>>) THEN StrV("es6")
            ELSE StrV("none") ])

(* ImprovedJavaScriptAnalyzer.extract_all_features (self.lines is          *)
(* code.splitlines(), set by __init__).                                    *)
JsExtractAllFeatures(code) ==
    LET lines == SplitLines(code)
    IN Update(Update(Update(Update(Update(
           JsStructuralPatterns(code),
           JsNamingPatterns(code)),
           JsConsistencyMetrics(code, lines)),
           JsCodeSmellIndicators(code, lines)),
           JsAiSpecificPatterns(code, lines)),
           JsSpecificPatterns(code))

-----------------------------------------------------------------------------
(* ast.parse (python_analyzer.py line 24), for the part of Python's grammar *)
(* written out below: decimal integers, one-line string literals, the      *)
(* statements and expressions of ParseStmt and ParseExpr, one logical line *)
(* per physical line.  The lexer yields the token stream of the tokenize   *)
(* stage (NAME, NUMBER, STRING, OP, NEWLINE, INDENT, DEDENT) or an error;  *)
(* the parser yields the tree of ast nodes or an error, and an error of    *)
(* either stage is the SyntaxError that ast.parse raises.                  *)

Tok(ty, v) == [ty |-> ty, v |-> v]
ErrorTok == Tok("ERROR", "")

PyKeywords ==
    {"False", "None", "True", "and", "as", "assert", "async", "await", "break",
     "class", "continue", "def", "del", "elif", "else", "except", "finally",
     "for", "from", "global", "if", "import", "in", "is", "lambda", "nonlocal",
     "not", "or", "pass", "raise", "return", "try", "while", "with", "yield"}

NameStartChars == LowerChars \cup UpperChars \cup {"_"}
QuoteChars == {"'", "\""}
Ops3 == {"**=", "//=", "..."}
Ops2 == {"==", "!=", "<=", ">=", ":=", "->", "+=", "-=", "*=", "/=", "%=", "**", "//"}
Ops1 == {"+", "-", "*", "/", "%", "<", ">", "=", "(", ")", "[", "]", "{", "}",
         ",", ":", ".", ";", "@", "|", "&", "~"}

(* The n characters of line from position i on, or those that remain.     *)
At(line, i, n) == SubSeq(line, i, Min2(i + n - 1, Len(line)))

(* The position of the quote that closes a string opened with quote q,     *)
(* searched from position i on; 0 when the line ends first.                *)
ClosingQuote(line, q, i) ==
    LET ends == {j \in i..(Len(line) - Len(q) + 1) :
                    /\ SubSeq(line, j, j + Len(q) - 1) = q
                    /\ (j = i \/ Ch(line, j - 1) # "\\")}
    IN IF ends = {} THEN 0 ELSE CHOOSE j \in ends : \A k \in ends : j <= k

(* The tokens of one physical line from position i on.                     *)
RECURSIVE ScanLine(_, _)

(* A string literal whose opening quote is at position i; ty is STRING or  *)
(* FSTRING, and the token's value is the text between the quotes.          *)
ScanString(line, i, ty) ==
    LET c == Ch(line, i)
        q == IF At(line, i, 3) = c \o c \o c THEN c \o c \o c ELSE c
        j == ClosingQuote(line, q, i + Len(q))
    IN IF j = 0 \/ "\\" \in Chars(SubSeq(line, i, Len(line))) THEN <<ErrorTok>>
       ELSE <<Tok(ty, SubSeq(line, i + Len(q), j - 1))>> \o ScanLine(line, j + Len(q))

ScanLine(line, i) ==
    IF i > Len(line) THEN <<>>
    ELSE LET c == Ch(line, i)
         IN CASE c \in {" ", "\t"} -> ScanLine(line, RunEnd(In({" ", "\t"}), line, i))
              [] c = "#" -> <<>>
              [] c \in NameStartChars ->
                    LET e == RunEnd(Word, line, i)
                        w == SubSeq(line, i, e - 1)
                    IN IF w \in {"f", "F"} /\ e <= Len(line) /\ Ch(line, e) \in QuoteChars
                       THEN ScanString(line, e, "FSTRING")
                       ELSE <<Tok(IF w \in PyKeywords THEN "KW" ELSE "NAME", w)>>
                            \o ScanLine(line, e)
              [] c \in DigitChars ->
                    LET e == RunEnd(In(DigitChars), line, i)
                    IN IF e <= Len(line) /\ Ch(line, e) \in NameStartChars
                       THEN <<ErrorTok>>
                       ELSE <<Tok("NUMBER", SubSeq(line, i, e - 1))>> \o ScanLine(line, e)
              [] c \in QuoteChars -> ScanString(line, i, "STRING")
              [] At(line, i, 3) \in Ops3 ->
                    <<Tok("OP", SubSeq(line, i, i + 2))>> \o ScanLine(line, i + 3)
              [] At(line, i, 2) \in Ops2 ->
                    <<Tok("OP", SubSeq(line, i, i + 1))>> \o ScanLine(line, i + 2)
              [] c \in Ops1 -> <<Tok("OP", c)>> \o ScanLine(line, i + 1)
              [] OTHER -> <<ErrorTok>>

(* The column that the leading blanks of a line reach: a tab moves to the  *)
(* next multiple of 8.                                                     *)
RECURSIVE IndentCol(_, _, _)
IndentCol(line, i, col) ==
    IF i > Len(line) THEN col
    ELSE IF Ch(line, i) = " " THEN IndentCol(line, i + 1, col + 1)
    ELSE IF Ch(line, i) = "\t" THEN IndentCol(line, i + 1, (col \div 8) * 8 + 8)
    ELSE col

(* The INDENT and DEDENT tokens before a logical line at column col, and   *)
(* the stack of open indentation levels after it.                          *)
RECURSIVE Dedents(_, _)
Dedents(stack, col) ==
    IF stack[Len(stack)] > col
    THEN LET r == Dedents(SubSeq(stack, 1, Len(stack) - 1), col)
         IN [toks |-> <<Tok("DEDENT", "")>> \o r.toks, stack |-> r.stack]
    ELSE IF stack[Len(stack)] = col THEN [toks |-> <<>>, stack |-> stack]
    ELSE [toks |-> <<ErrorTok>>, stack |-> stack]

RECURSIVE TokenizeLines(_, _, _)
TokenizeLines(lines, n, stack) ==
    IF n > Len(lines)
    THEN [i \in 1..(Len(stack) - 1) |-> Tok("DEDENT", "")] \o <<Tok("END", "")>>
    ELSE LET toks == ScanLine(lines[n], 1)
             col == IndentCol(lines[n], 1, 0)
         IN IF toks = <<>> THEN TokenizeLines(lines, n + 1, stack)
            ELSE IF col > stack[Len(stack)]
            THEN <<Tok("INDENT", "")>> \o toks \o <<Tok("NEWLINE", "")>>
                 \o TokenizeLines(lines, n + 1, Append(stack, col))
            ELSE LET d == Dedents(stack, col)
                 IN d.toks \o toks \o <<Tok("NEWLINE", "")>>
                    \o TokenizeLines(lines, n + 1, d.stack)

(* The token stream of a text; it holds an ERROR token when the text has   *)
(* no tokenization.                                                        *)
Tokenize(code) == TokenizeLines(SplitLines(code), 1, <<0>>)

(* ast nodes: the class name, the identifier the node carries (name, id,   *)
(* arg, attr), the value of a Constant, the child fields in the order of   *)
(* the class's _fields, and the expression context, which is the last      *)
(* field of the classes that have one.                                     *)
NoneV == [t |-> "none", n |-> 0, s |-> ""]
F(f, ns) == [f |-> f, ns |-> ns]
Node(type, name, value, fields, ctx) ==
    [type |-> type, name |-> name, value |-> value, fields |-> fields, ctx |-> ctx]
Leaf(type) == Node(type, "", NoneV, <<>>, "")
NameNode(id, ctx) == Node("Name", id, NoneV, <<>>, ctx)
ConstantNode(value) == Node("Constant", "", value, <<>>, "")
Expression(type, fields) == Node(type, "", NoneV, fields, "")

(* The nodes of field f of a node.                                         *)
Field(node, f) ==
    LET hits == SelectSeq(node.fields, LAMBDA fld : fld.f = f)
    IN IF hits = <<>> THEN <<>> ELSE hits[1].ns

(* ast.iter_child_nodes                                                    *)
iter_child_nodes(node) ==
    Flatten([i \in 1..Len(node.fields) |-> node.fields[i].ns])
    \o (IF node.ctx = "" THEN <<>> ELSE <<Leaf(node.ctx)>>)

(* What a parsing step yields: a node or a list of nodes and the position  *)
(* of the next token, or the failure that becomes a SyntaxError.           *)
Ok(n, p) == [ok |-> TRUE, n |-> n, p |-> p]
Fail == [ok |-> FALSE, n |-> <<>>, p |-> 0]
Then(r, K(_, _)) == IF r.ok THEN K(r.n, r.p) ELSE Fail

TyAt(toks, p) == IF p <= Len(toks) THEN toks[p].ty ELSE "END"
ValAt(toks, p) == IF p <= Len(toks) THEN toks[p].v ELSE ""
IsOp(toks, p, v) == TyAt(toks, p) = "OP" /\ ValAt(toks, p) = v
IsKw(toks, p, v) == TyAt(toks, p) = "KW" /\ ValAt(toks, p) = v
Expect(toks, p, v, n) == IF IsOp(toks, p, v) THEN Ok(n, p + 1) ELSE Fail

(* int(literal)                                                            *)
RECURSIVE ParseInt(_)
ParseInt(digits) ==
    IF digits = "" THEN 0
    ELSE ParseInt(SubSeq(digits, 1, Len(digits) - 1)) * 10
         + (IndexIn(AsciiDigits, Ch(digits, Len(digits))) - 1)

(* The assignment targets: a name, an attribute, a subscript, or a list or *)
(* tuple of targets; anything else is "cannot assign to ...".              *)
RECURSIVE IsTarget(_)
IsTarget(node) ==
    \/ node.type \in {"Name", "Attribute", "Subscript"}
    \/ /\ node.type \in {"Tuple", "List"}
       /\ \A i \in 1..Len(Field(node, "elts")) : IsTarget(Field(node, "elts")[i])

(* The node with its context, and that of the elements of a list or tuple, *)
(* set to ctx.                                                             *)
RECURSIVE SetCtx(_, _)
SetCtx(node, ctx) ==
    IF node.type \in {"Tuple", "List"}
    THEN [node EXCEPT !.ctx = ctx,
                      !.fields = <<F("elts", [i \in 1..Len(Field(node, "elts")) |->
                                                 SetCtx(Field(node, "elts")[i], ctx)])>>]
    ELSE IF node.ctx # "" THEN [node EXCEPT !.ctx = ctx] ELSE node

BinOps == << {"|"}, {"&"}, {"+", "-"}, {"*", "/", "//", "%", "@"} >>
BinOpName ==
    [op \in {"|", "&", "+", "-", "*", "/", "//", "%", "@", "**"} |->
        CASE op = "|" -> "BitOr" [] op = "&" -> "BitAnd" [] op = "+" -> "Add"
          [] op = "-" -> "Sub" [] op = "*" -> "Mult" [] op = "/" -> "Div"
          [] op = "//" -> "FloorDiv" [] op = "%" -> "Mod" [] op = "@" -> "MatMult"
          [] op = "**" -> "Pow"]
UnaryOpName == [op \in {"-", "+", "~"} |->
                   CASE op = "-" -> "USub" [] op = "+" -> "UAdd" [] op = "~" -> "Invert"]
CmpOpName ==
    [op \in {"==", "!=", "<", "<=", ">", ">="} |->
        CASE op = "==" -> "Eq" [] op = "!=" -> "NotEq" [] op = "<" -> "Lt"
          [] op = "<=" -> "LtE" [] op = ">" -> "Gt" [] op = ">=" -> "GtE"]

BinOpNode(left, op, right) ==
    Expression("BinOp", <<F("left", <<left>>), F("op", <<Leaf(BinOpName[op])>>),
                          F("right", <<right>>)>>)

RECURSIVE Parse(_, _)
RECURSIVE ConcatStrings(_, _)

(* expr (',' expr)* [','] up to the closing token: the list of elements.   *)
ParseExprList(toks, p, close, acc) ==
    IF IsOp(toks, p, close) THEN Ok(acc, p)
    ELSE Then(Parse("ParseExpr", <<toks, p>>), LAMBDA e, q :
            IF IsOp(toks, q, ",") THEN Parse("ParseExprList", <<toks, q + 1, close, Append(acc, e)>>)
            ELSE IF IsOp(toks, q, close) THEN Ok(Append(acc, e), q)
            ELSE Fail)

(* target (',' target)* up to `in`: the targets.                           *)
ParseTargetList(toks, p, acc) ==
    Then(Parse("ParseBin", <<toks, p, 1>>), LAMBDA t, q :
        IF IsOp(toks, q, ",") /\ ~IsKw(toks, q + 1, "in")
        THEN Parse("ParseTargetList", <<toks, q + 1, Append(acc, t)>>)
        ELSE Ok(Append(acc, t), IF IsOp(toks, q, ",") THEN q + 1 ELSE q))

(* The target of a for statement or a comprehension, in Store context.     *)
ParseTargets(toks, p) ==
    Then(Parse("ParseTargetList", <<toks, p, <<>>>>), LAMBDA ts, q :
        LET target == IF Len(ts) = 1 /\ ~IsOp(toks, q - 1, ",") THEN ts[1]
                      ELSE Node("Tuple", "", NoneV, <<F("elts", ts)>>, "Load")
        IN IF IsTarget(target) THEN Ok(SetCtx(target, "Store"), q) ELSE Fail)

(* ('if' condition)* of a comprehension                                    *)
ParseCompIfs(toks, p, acc) ==
    IF IsKw(toks, p, "if")
    THEN Then(Parse("ParseBool", <<toks, p + 1, 1>>), LAMBDA c, q : Parse("ParseCompIfs", <<toks, q, Append(acc, c)>>))
    ELSE Ok(acc, p)

(* The generators: one or more `for targets in iterable`, each with its    *)
(* `if condition` clauses.                                                 *)
ParseCompFor(toks, p, acc) ==
    IF ~IsKw(toks, p, "for") THEN Ok(acc, p)
    ELSE Then(Parse("ParseTargets", <<toks, p + 1>>), LAMBDA target, q :
           IF ~IsKw(toks, q, "in") THEN Fail
           ELSE Then(Parse("ParseBool", <<toks, q + 1, 1>>), LAMBDA iter, q2 :
                  Then(Parse("ParseCompIfs", <<toks, q2, <<>>>>), LAMBDA ifs, q3 :
                    Parse("ParseCompFor", <<toks, q3,
                        Append(acc, Expression("comprehension",
                            <<F("target", <<target>>), F("iter", <<iter>>),
                              F("ifs", ifs)>>))>>))))

(* The values of an f-string: the literal stretches and the replacement    *)
(* fields "{expression}" of its text from position i on.                   *)
FStringValues(text, i) ==
    IF i > Len(text) THEN Ok(<<>>, i)
    ELSE IF Ch(text, i) = "}" THEN Fail
    ELSE IF Ch(text, i) = "{"
    THEN LET close == RunEnd(NotIn({"}"}), text, i)
             inner == ScanLine(SubSeq(text, i + 1, close - 1), 1) \o <<Tok("END", "")>>
         IN IF close > Len(text) \/ ErrorTok \in {inner[k] : k \in 1..Len(inner)} THEN Fail
            ELSE Then(Parse("ParseExpr", <<inner, 1>>), LAMBDA e, q :
                   IF q # Len(inner) THEN Fail
                   ELSE Then(Parse("FStringValues", <<text, close + 1>>), LAMBDA rest, q2 :
                          Ok(<<Expression("FormattedValue", <<F("value", <<e>>)>>)>> \o rest,
                             q2)))
    ELSE LET stop == RunEnd(NotIn({"{", "}"}), text, i)
         IN Then(Parse("FStringValues", <<text, stop>>), LAMBDA rest, q :
                Ok(<<ConstantNode(StrV(SubSeq(text, i, stop - 1)))>> \o rest, q))

(* The display that opens with "(", "[" or "{" at position p.              *)
ParseParenthesized(toks, p) ==
    IF IsOp(toks, p + 1, ")")
    THEN Ok(Node("Tuple", "", NoneV, <<F("elts", <<>>)>>, "Load"), p + 2)
    ELSE IF TyAt(toks, p + 1) = "NAME" /\ IsOp(toks, p + 2, ":=")
    THEN Then(Parse("ParseExpr", <<toks, p + 3>>), LAMBDA value, q :
           Expect(toks, q, ")",
                  Expression("NamedExpr",
                      <<F("target", <<NameNode(ValAt(toks, p + 1), "Store")>>),
                        F("value", <<value>>)>>)))
    ELSE Then(Parse("ParseExpr", <<toks, p + 1>>), LAMBDA first, q :
           IF IsKw(toks, q, "for")
           THEN Then(Parse("ParseCompFor", <<toks, q, <<>>>>), LAMBDA gens, q2 :
                  Expect(toks, q2, ")",
                         Expression("GeneratorExp",
                                    <<F("elt", <<first>>), F("generators", gens)>>)))
           ELSE IF IsOp(toks, q, ")") THEN Ok(first, q + 1)
           ELSE IF IsOp(toks, q, ",")
           THEN Then(Parse("ParseExprList", <<toks, q + 1, ")", <<first>>>>), LAMBDA elts, q2 :
                  Ok(Node("Tuple", "", NoneV, <<F("elts", elts)>>, "Load"), q2 + 1))
           ELSE Fail)

ParseListDisplay(toks, p) ==
    IF IsOp(toks, p + 1, "]")
    THEN Ok(Node("List", "", NoneV, <<F("elts", <<>>)>>, "Load"), p + 2)
    ELSE Then(Parse("ParseExpr", <<toks, p + 1>>), LAMBDA first, q :
           IF IsKw(toks, q, "for")
           THEN Then(Parse("ParseCompFor", <<toks, q, <<>>>>), LAMBDA gens, q2 :
                  Expect(toks, q2, "]",
                         Expression("ListComp",
                                    <<F("elt", <<first>>), F("generators", gens)>>)))
           ELSE IF IsOp(toks, q, "]")
           THEN Ok(Node("List", "", NoneV, <<F("elts", <<first>>)>>, "Load"), q + 1)
           ELSE IF IsOp(toks, q, ",")
           THEN Then(Parse("ParseExprList", <<toks, q + 1, "]", <<first>>>>), LAMBDA elts, q2 :
                  Ok(Node("List", "", NoneV, <<F("elts", elts)>>, "Load"), q2 + 1))
           ELSE Fail)

(* key ':' value (',' key ':' value)* up to "}": the keys and the values.  *)
ParseDictItems(toks, p, keys, values) ==
    IF IsOp(toks, p, "}") THEN Ok(<<keys, values>>, p)
    ELSE Then(Parse("ParseExpr", <<toks, p>>), LAMBDA k, q :
           IF ~IsOp(toks, q, ":") THEN Fail
           ELSE Then(Parse("ParseExpr", <<toks, q + 1>>), LAMBDA v, q2 :
                  IF IsOp(toks, q2, ",")
                  THEN Parse("ParseDictItems", <<toks, q2 + 1, Append(keys, k), Append(values, v)>>)
                  ELSE IF IsOp(toks, q2, "}")
                  THEN Ok(<<Append(keys, k), Append(values, v)>>, q2)
                  ELSE Fail))

ParseBraces(toks, p) ==
    IF IsOp(toks, p + 1, "}")
    THEN Ok(Expression("Dict", <<F("keys", <<>>), F("values", <<>>)>>), p + 2)
    ELSE Then(Parse("ParseExpr", <<toks, p + 1>>), LAMBDA first, q :
           IF IsOp(toks, q, ":")
           THEN Then(Parse("ParseExpr", <<toks, q + 1>>), LAMBDA value, q2 :
                  IF IsKw(toks, q2, "for")
                  THEN Then(Parse("ParseCompFor", <<toks, q2, <<>>>>), LAMBDA gens, q3 :
                         Expect(toks, q3, "}",
                                Expression("DictComp",
                                    <<F("key", <<first>>), F("value", <<value>>),
                                      F("generators", gens)>>)))
                  ELSE IF IsOp(toks, q2, "}")
                  THEN Ok(Expression("Dict", <<F("keys", <<first>>),
                                               F("values", <<value>>)>>), q2 + 1)
                  ELSE IF IsOp(toks, q2, ",")
                  THEN Then(Parse("ParseDictItems", <<toks, q2 + 1, <<first>>, <<value>>>>),
                            LAMBDA kv, q3 :
                              Ok(Expression("Dict", <<F("keys", kv[1]),
                                                      F("values", kv[2])>>), q3 + 1))
                  ELSE Fail)
           ELSE IF IsKw(toks, q, "for")
           THEN Then(Parse("ParseCompFor", <<toks, q, <<>>>>), LAMBDA gens, q2 :
                  Expect(toks, q2, "}",
                         Expression("SetComp",
                                    <<F("elt", <<first>>), F("generators", gens)>>)))
           ELSE IF IsOp(toks, q, "}")
           THEN Ok(Expression("Set", <<F("elts", <<first>>)>>), q + 1)
           ELSE IF IsOp(toks, q, ",")
           THEN Then(Parse("ParseExprList", <<toks, q + 1, "}", <<first>>>>), LAMBDA elts, q2 :
                  Ok(Expression("Set", <<F("elts", elts)>>), q2 + 1))
           ELSE Fail)

(* The parameters of a def or a lambda up to the closing token: the        *)
(* arguments node.  acc holds the parameters read so far.                  *)
ArgNode(name) == Node("arg", name, NoneV, <<>>, "")
NoParams == [args |-> <<>>, defaults |-> <<>>, vararg |-> <<>>, kwarg |-> <<>>]
ArgumentsNode(acc) ==
    Expression("arguments",
        <<F("posonlyargs", <<>>), F("args", acc.args), F("vararg", acc.vararg),
          F("kwonlyargs", <<>>), F("kw_defaults", <<>>), F("kwarg", acc.kwarg),
          F("defaults", acc.defaults)>>)

ParseParams(toks, p, close, acc) ==
    LET Continue(acc2, q) ==
            IF IsOp(toks, q, ",") THEN Parse("ParseParams", <<toks, q + 1, close, acc2>>)
            ELSE IF IsOp(toks, q, close) THEN Ok(ArgumentsNode(acc2), q)
            ELSE Fail
    IN IF IsOp(toks, p, close) THEN Ok(ArgumentsNode(acc), p)
       ELSE IF acc.kwarg # <<>> THEN Fail
       ELSE IF IsOp(toks, p, "**") /\ TyAt(toks, p + 1) = "NAME"
       THEN Continue([acc EXCEPT !.kwarg = <<ArgNode(ValAt(toks, p + 1))>>], p + 2)
       ELSE IF acc.vararg # <<>> THEN Fail
       ELSE IF IsOp(toks, p, "*") /\ TyAt(toks, p + 1) = "NAME"
       THEN Continue([acc EXCEPT !.vararg = <<ArgNode(ValAt(toks, p + 1))>>], p + 2)
       ELSE IF TyAt(toks, p) # "NAME" THEN Fail
       ELSE IF IsOp(toks, p + 1, "=")
       THEN Then(Parse("ParseExpr", <<toks, p + 2>>), LAMBDA d, q :
              Continue([acc EXCEPT !.args = Append(@, ArgNode(ValAt(toks, p))),
                                   !.defaults = Append(@, d)], q))
       ELSE IF acc.defaults # <<>> THEN Fail
       ELSE Continue([acc EXCEPT !.args = Append(@, ArgNode(ValAt(toks, p)))], p + 1)

(* Adjacent string literals are one constant.                              *)
ConcatStrings(toks, p) ==
    IF TyAt(toks, p) = "STRING"
    THEN LET rest == ConcatStrings(toks, p + 1)
         IN [s |-> ValAt(toks, p) \o rest.s, p |-> rest.p]
    ELSE [s |-> "", p |-> p]

ParseAtom(toks, p) ==
    LET ty == TyAt(toks, p)
        v == ValAt(toks, p)
    IN CASE ty = "NAME" -> Ok(NameNode(v, "Load"), p + 1)
         [] ty = "NUMBER" -> Ok(ConstantNode(IntV(ParseInt(v))), p + 1)
         [] ty = "STRING" ->
               LET lit == ConcatStrings(toks, p) IN Ok(ConstantNode(StrV(lit.s)), lit.p)
         [] ty = "FSTRING" ->
               Then(Parse("FStringValues", <<v, 1>>), LAMBDA values, q :
                   Ok(Expression("JoinedStr", <<F("values", values)>>), p + 1))
         [] ty = "KW" /\ v \in {"True", "False"} -> Ok(ConstantNode(BoolV(v = "True")), p + 1)
         [] ty = "KW" /\ v = "None" -> Ok(ConstantNode(NoneV), p + 1)
         [] ty = "OP" /\ v = "(" -> Parse("ParseParenthesized", <<toks, p>>)
         [] ty = "OP" /\ v = "[" -> Parse("ParseListDisplay", <<toks, p>>)
         [] ty = "OP" /\ v = "{" -> Parse("ParseBraces", <<toks, p>>)
         [] ty = "OP" /\ v = "..." ->
               Ok(ConstantNode([t |-> "ellipsis", n |-> 0, s |-> ""]), p + 1)
         [] OTHER -> Fail

(* The arguments of a call up to ")": the positional and the keyword ones. *)
ParseCallArgs(toks, p, args, keywords) ==
    LET Continue(args2, keywords2, q) ==
            IF IsOp(toks, q, ",") THEN Parse("ParseCallArgs", <<toks, q + 1, args2, keywords2>>)
            ELSE IF IsOp(toks, q, ")") THEN Ok(<<args2, keywords2>>, q)
            ELSE Fail
    IN IF IsOp(toks, p, ")") THEN Ok(<<args, keywords>>, p)
       ELSE IF TyAt(toks, p) = "NAME" /\ IsOp(toks, p + 1, "=")
       THEN Then(Parse("ParseExpr", <<toks, p + 2>>), LAMBDA v, q :
              Continue(args,
                       Append(keywords,
                              Node("keyword", ValAt(toks, p), NoneV, <<F("value", <<v>>)>>, "")),
                       q))
       ELSE IF keywords # <<>> THEN Fail
       ELSE Then(Parse("ParseExpr", <<toks, p>>), LAMBDA e, q :
              IF IsKw(toks, q, "for") /\ args = <<>>
              THEN Then(Parse("ParseCompFor", <<toks, q, <<>>>>), LAMBDA gens, q2 :
                     IF IsOp(toks, q2, ")")
                     THEN Ok(<< <<Expression("GeneratorExp",
                                      <<F("elt", <<e>>), F("generators", gens)>>)>>, <<>> >>,
                             q2)
                     ELSE Fail)
              ELSE Continue(Append(args, e), keywords, q))

(* The calls, subscripts and attribute references that follow a primary.   *)
ParseTrailers(toks, p, node) ==
    IF IsOp(toks, p, "(")
    THEN Then(Parse("ParseCallArgs", <<toks, p + 1, <<>>, <<>>>>), LAMBDA ak, q :
           Parse("ParseTrailers", <<toks, q + 1,
               Expression("Call", <<F("func", <<node>>), F("args", ak[1]),
                                    F("keywords", ak[2])>>)>>))
    ELSE IF IsOp(toks, p, "[")
    THEN Then(Parse("ParseExpr", <<toks, p + 1>>), LAMBDA index, q :
           IF IsOp(toks, q, "]")
           THEN Parse("ParseTrailers", <<toks, q + 1,
                    Node("Subscript", "", NoneV,
                         <<F("value", <<node>>), F("slice", <<index>>)>>, "Load")>>)
           ELSE Fail)
    ELSE IF IsOp(toks, p, ".")
    THEN IF TyAt(toks, p + 1) = "NAME"
         THEN Parse("ParseTrailers", <<toks, p + 2,
                  Node("Attribute", ValAt(toks, p + 1), NoneV, <<F("value", <<node>>)>>,
                       "Load")>>)
         ELSE Fail
    ELSE Ok(node, p)

ParsePower(toks, p) ==
    Then(Parse("ParseAtom", <<toks, p>>), LAMBDA atom, q :
      Then(Parse("ParseTrailers", <<toks, q, atom>>), LAMBDA primary, q2 :
        IF IsOp(toks, q2, "**")
        THEN Then(Parse("ParseFactor", <<toks, q2 + 1>>), LAMBDA exponent, q3 :
               Ok(BinOpNode(primary, "**", exponent), q3))
        ELSE Ok(primary, q2)))

ParseFactor(toks, p) ==
    IF TyAt(toks, p) = "OP" /\ ValAt(toks, p) \in DOMAIN UnaryOpName
    THEN Then(Parse("ParseFactor", <<toks, p + 1>>), LAMBDA operand, q :
           Ok(Expression("UnaryOp", <<F("op", <<Leaf(UnaryOpName[ValAt(toks, p)])>>),
                                      F("operand", <<operand>>)>>), q))
    ELSE Parse("ParsePower", <<toks, p>>)

(* The binary operators of precedence level lvl and above, left to right.  *)
ParseBinRest(toks, p, lvl, left) ==
    IF TyAt(toks, p) = "OP" /\ ValAt(toks, p) \in BinOps[lvl]
    THEN Then(Parse("ParseBin", <<toks, p + 1, lvl + 1>>), LAMBDA right, q :
           Parse("ParseBinRest", <<toks, q, lvl, BinOpNode(left, ValAt(toks, p), right)>>))
    ELSE Ok(left, p)

ParseBin(toks, p, lvl) ==
    IF lvl > Len(BinOps) THEN Parse("ParseFactor", <<toks, p>>)
    ELSE Then(Parse("ParseBin", <<toks, p, lvl + 1>>), LAMBDA left, q : Parse("ParseBinRest", <<toks, q, lvl, left>>))

(* The comparison operator at position p: its class and its length in      *)
(* tokens (0 when there is none).                                          *)
CmpOpAt(toks, p) ==
    IF TyAt(toks, p) = "OP" /\ ValAt(toks, p) \in DOMAIN CmpOpName
    THEN [op |-> CmpOpName[ValAt(toks, p)], len |-> 1]
    ELSE IF IsKw(toks, p, "in") THEN [op |-> "In", len |-> 1]
    ELSE IF IsKw(toks, p, "not") /\ IsKw(toks, p + 1, "in") THEN [op |-> "NotIn", len |-> 2]
    ELSE IF IsKw(toks, p, "is") /\ IsKw(toks, p + 1, "not") THEN [op |-> "IsNot", len |-> 2]
    ELSE IF IsKw(toks, p, "is") THEN [op |-> "Is", len |-> 1]
    ELSE [op |-> "", len |-> 0]

ParseCompareRest(toks, p, left, ops, comparators) ==
    LET c == CmpOpAt(toks, p)
    IN IF c.len = 0
       THEN IF ops = <<>> THEN Ok(left, p)
            ELSE Ok(Expression("Compare", <<F("left", <<left>>), F("ops", ops),
                                            F("comparators", comparators)>>), p)
       ELSE Then(Parse("ParseBin", <<toks, p + c.len, 1>>), LAMBDA right, q :
              Parse("ParseCompareRest", <<toks, q, left, Append(ops, Leaf(c.op)),
                               Append(comparators, right)>>))

ParseCompare(toks, p) ==
    Then(Parse("ParseBin", <<toks, p, 1>>), LAMBDA left, q : Parse("ParseCompareRest", <<toks, q, left, <<>>, <<>>>>))

ParseNot(toks, p) ==
    IF IsKw(toks, p, "not")
    THEN Then(Parse("ParseNot", <<toks, p + 1>>), LAMBDA operand, q :
           Ok(Expression("UnaryOp", <<F("op", <<Leaf("Not")>>),
                                      F("operand", <<operand>>)>>), q))
    ELSE Parse("ParseCompare", <<toks, p>>)

(* `or` (lvl 1) and `and` (lvl 2): one BoolOp for a run of one operator.   *)
BoolKw == <<"or", "and">>
BoolOpName == <<"Or", "And">>

ParseBoolRest(toks, p, lvl, values) ==
    IF IsKw(toks, p, BoolKw[lvl])
    THEN Then(IF lvl = 1 THEN Parse("ParseBool", <<toks, p + 1, 2>>) ELSE Parse("ParseNot", <<toks, p + 1>>),
              LAMBDA v, q : Parse("ParseBoolRest", <<toks, q, lvl, Append(values, v)>>))
    ELSE IF Len(values) = 1 THEN Ok(values[1], p)
    ELSE Ok(Expression("BoolOp", <<F("op", <<Leaf(BoolOpName[lvl])>>),
                                   F("values", values)>>), p)

ParseBool(toks, p, lvl) ==
    Then(IF lvl = 1 THEN Parse("ParseBool", <<toks, p, 2>>) ELSE Parse("ParseNot", <<toks, p>>),
         LAMBDA first, q : Parse("ParseBoolRest", <<toks, q, lvl, <<first>>>>))

ParseExpr(toks, p) ==
    IF IsKw(toks, p, "lambda")
    THEN Then(Parse("ParseParams", <<toks, p + 1, ":", NoParams>>), LAMBDA args, q :
           Then(Parse("ParseExpr", <<toks, q + 1>>), LAMBDA body, q2 :
             Ok(Expression("Lambda", <<F("args", <<args>>), F("body", <<body>>)>>), q2)))
    ELSE Then(Parse("ParseBool", <<toks, p, 1>>), LAMBDA body, q :
           IF IsKw(toks, q, "if")
           THEN Then(Parse("ParseBool", <<toks, q + 1, 1>>), LAMBDA test, q2 :
                  IF ~IsKw(toks, q2, "else") THEN Fail
                  ELSE Then(Parse("ParseExpr", <<toks, q2 + 1>>), LAMBDA orelse, q3 :
                         Ok(Expression("IfExp", <<F("test", <<test>>), F("body", <<body>>),
                                                  F("orelse", <<orelse>>)>>), q3)))
           ELSE Ok(body, q))

Stmt(type, name, fields) == Node(type, name, NoneV, fields, "")
TupleNode(elts) == Node("Tuple", "", NoneV, <<F("elts", elts)>>, "Load")

(* Whether the token at p can begin an expression.                         *)
StartsExpr(toks, p) ==
    \/ TyAt(toks, p) \in {"NAME", "NUMBER", "STRING", "FSTRING"}
    \/ TyAt(toks, p) = "KW" /\ ValAt(toks, p) \in {"True", "False", "None", "not", "lambda"}
    \/ TyAt(toks, p) = "OP" /\ ValAt(toks, p) \in {"(", "[", "{", "-", "+", "~", "..."}

ParseTestListRest(toks, p, acc) ==
    IF IsOp(toks, p, ",")
    THEN IF StartsExpr(toks, p + 1)
         THEN Then(Parse("ParseExpr", <<toks, p + 1>>), LAMBDA e, q :
                Parse("ParseTestListRest", <<toks, q, Append(acc, e)>>))
         ELSE Ok(TupleNode(acc), p + 1)
    ELSE IF Len(acc) = 1 THEN Ok(acc[1], p)
    ELSE Ok(TupleNode(acc), p)

(* expr (',' expr)* [',']: the expression, or the tuple of them.           *)
ParseTestList(toks, p) ==
    Then(Parse("ParseExpr", <<toks, p>>), LAMBDA e, q : Parse("ParseTestListRest", <<toks, q, <<e>>>>))

AugOps == {"+=", "-=", "*=", "/=", "%=", "**=", "//="}
AugOpName ==
    [op \in AugOps |-> BinOpName[SubSeq(op, 1, Len(op) - 1)]]

(* target '=' ... '=' value, the first target being read.                  *)
ParseAssignRest(toks, p, targets) ==
    Then(Parse("ParseTestList", <<toks, p>>), LAMBDA e, q :
        IF IsOp(toks, q, "=")
        THEN IF IsTarget(e) THEN Parse("ParseAssignRest", <<toks, q + 1, Append(targets, e)>>) ELSE Fail
        ELSE Ok(Stmt("Assign", "",
                     <<F("targets", [i \in 1..Len(targets) |-> SetCtx(targets[i], "Store")]),
                       F("value", <<e>>)>>), q))

(* NAME ('.' NAME)*: the dotted name and the position after it.            *)
RECURSIVE DottedName(_, _)
DottedName(toks, p) ==
    IF TyAt(toks, p) # "NAME" THEN [s |-> "", p |-> 0]
    ELSE IF IsOp(toks, p + 1, ".")
    THEN LET rest == DottedName(toks, p + 2)
         IN IF rest.p = 0 THEN rest ELSE [s |-> ValAt(toks, p) \o "." \o rest.s, p |-> rest.p]
    ELSE [s |-> ValAt(toks, p), p |-> p + 1]

(* name ['as' NAME] (',' name ['as' NAME])*: the alias nodes.              *)
RECURSIVE ParseAliases(_, _, _, _)
ParseAliases(toks, p, dotted, acc) ==
    LET name == IF dotted THEN DottedName(toks, p)
                ELSE IF TyAt(toks, p) = "NAME" THEN [s |-> ValAt(toks, p), p |-> p + 1]
                ELSE [s |-> "", p |-> 0]
        q == IF IsKw(toks, name.p, "as") /\ TyAt(toks, name.p + 1) = "NAME"
             THEN name.p + 2 ELSE name.p
        aliases == Append(acc, Stmt("alias", name.s, <<>>))
    IN IF name.p = 0 \/ IsKw(toks, q, "as") THEN Fail
       ELSE IF IsOp(toks, q, ",") THEN ParseAliases(toks, q + 1, dotted, aliases)
       ELSE Ok(aliases, q)

(* A simple statement.                                                     *)
ParseSimple(toks, p) ==
    LET ends == TyAt(toks, p + 1) = "NEWLINE" \/ IsOp(toks, p + 1, ";")
    IN CASE TyAt(toks, p) = "KW" /\ ValAt(toks, p) \in {"pass", "break", "continue"} ->
              Ok(Stmt(CASE ValAt(toks, p) = "pass" -> "Pass"
                        [] ValAt(toks, p) = "break" -> "Break"
                        [] OTHER -> "Continue", "", <<>>), p + 1)
         [] IsKw(toks, p, "return") ->
              IF ends THEN Ok(Stmt("Return", "", <<F("value", <<>>)>>), p + 1)
              ELSE Then(Parse("ParseTestList", <<toks, p + 1>>), LAMBDA e, q :
                     Ok(Stmt("Return", "", <<F("value", <<e>>)>>), q))
         [] IsKw(toks, p, "raise") ->
              IF ends THEN Ok(Stmt("Raise", "", <<F("exc", <<>>)>>), p + 1)
              ELSE Then(Parse("ParseExpr", <<toks, p + 1>>), LAMBDA e, q :
                     Ok(Stmt("Raise", "", <<F("exc", <<e>>)>>), q))
         [] IsKw(toks, p, "assert") ->
              Then(Parse("ParseExpr", <<toks, p + 1>>), LAMBDA test, q :
                IF IsOp(toks, q, ",")
                THEN Then(Parse("ParseExpr", <<toks, q + 1>>), LAMBDA msg, q2 :
                       Ok(Stmt("Assert", "", <<F("test", <<test>>), F("msg", <<msg>>)>>), q2))
                ELSE Ok(Stmt("Assert", "", <<F("test", <<test>>), F("msg", <<>>)>>), q))
         [] IsKw(toks, p, "import") ->
              Then(ParseAliases(toks, p + 1, TRUE, <<>>), LAMBDA names, q :
                Ok(Stmt("Import", "", <<F("names", names)>>), q))
         [] IsKw(toks, p, "from") ->
              LET module == DottedName(toks, p + 1)
              IN IF module.p = 0 \/ ~IsKw(toks, module.p, "import") THEN Fail
                 ELSE IF IsOp(toks, module.p + 1, "*")
                 THEN Ok(Stmt("ImportFrom", module.s,
                              <<F("names", <<Stmt("alias", "*", <<>>)>>)>>), module.p + 2)
                 ELSE Then(ParseAliases(toks, module.p + 1, FALSE, <<>>), LAMBDA names, q :
                        Ok(Stmt("ImportFrom", module.s, <<F("names", names)>>), q))
         [] IsKw(toks, p, "global") \/ IsKw(toks, p, "nonlocal") ->
              Then(ParseAliases(toks, p + 1, FALSE, <<>>), LAMBDA names, q :
                IF \E i \in p..(q - 1) : IsKw(toks, i, "as") THEN Fail
                ELSE Ok(Stmt(IF IsKw(toks, p, "global") THEN "Global" ELSE "Nonlocal",
                             "", <<>>), q))
         [] OTHER ->
              Then(Parse("ParseTestList", <<toks, p>>), LAMBDA first, q :
                IF IsOp(toks, q, "=")
                THEN IF IsTarget(first) THEN Parse("ParseAssignRest", <<toks, q + 1, <<first>>>>) ELSE Fail
                ELSE IF TyAt(toks, q) = "OP" /\ ValAt(toks, q) \in AugOps
                THEN IF first.type \notin {"Name", "Attribute", "Subscript"} THEN Fail
                     ELSE Then(Parse("ParseTestList", <<toks, q + 1>>), LAMBDA value, q2 :
                            Ok(Stmt("AugAssign", "",
                                    <<F("target", <<SetCtx(first, "Store")>>),
                                      F("op", <<Leaf(AugOpName[ValAt(toks, q)])>>),
                                      F("value", <<value>>)>>), q2))
                ELSE IF IsOp(toks, q, ":")
                THEN IF first.type \notin {"Name", "Attribute", "Subscript"} THEN Fail
                     ELSE Then(Parse("ParseExpr", <<toks, q + 1>>), LAMBDA annotation, q2 :
                            IF IsOp(toks, q2, "=")
                            THEN Then(Parse("ParseTestList", <<toks, q2 + 1>>), LAMBDA value, q3 :
                                   Ok(Stmt("AnnAssign", "",
                                           <<F("target", <<SetCtx(first, "Store")>>),
                                             F("annotation", <<annotation>>),
                                             F("value", <<value>>)>>), q3))
                            ELSE Ok(Stmt("AnnAssign", "",
                                         <<F("target", <<SetCtx(first, "Store")>>),
                                           F("annotation", <<annotation>>),
                                           F("value", <<>>)>>), q2))
                ELSE Ok(Stmt("Expr", "", <<F("value", <<first>>)>>), q))

(* simple (';' simple)* [';'] NEWLINE: the statements of the line.         *)
ParseSimpleLine(toks, p, acc) ==
    Then(Parse("ParseSimple", <<toks, p>>), LAMBDA s, q :
        IF TyAt(toks, q) = "NEWLINE" THEN Ok(Append(acc, s), q + 1)
        ELSE IF IsOp(toks, q, ";")
        THEN IF TyAt(toks, q + 1) = "NEWLINE" THEN Ok(Append(acc, s), q + 2)
             ELSE Parse("ParseSimpleLine", <<toks, q + 1, Append(acc, s)>>)
        ELSE Fail)


(* ':' and the suite after it: the statements of the line, or of the       *)
(* indented block.                                                         *)
ParseBlock(toks, p) ==
    IF ~IsOp(toks, p, ":") THEN Fail
    ELSE IF TyAt(toks, p + 1) = "NEWLINE"
    THEN IF TyAt(toks, p + 2) # "INDENT" THEN Fail
         ELSE Then(Parse("ParseStmts", <<toks, p + 3, <<>>>>), LAMBDA body, q :
                IF TyAt(toks, q) = "DEDENT" /\ body # <<>> THEN Ok(body, q + 1) ELSE Fail)
    ELSE Parse("ParseSimpleLine", <<toks, p + 1, <<>>>>)

(* ['else' suite]                                                          *)
ParseElse(toks, p) ==
 IF IsKw(toks, p, "else") THEN Parse("ParseBlock", <<toks, p + 1>>) ELSE Ok(<<>>, p)

(* The if statement whose `if` or `elif` is at p.                          *)
ParseIf(toks, p) ==
    Then(Parse("ParseExpr", <<toks, p + 1>>), LAMBDA test, q :
      Then(Parse("ParseBlock", <<toks, q>>), LAMBDA body, q2 :
        Then(IF IsKw(toks, q2, "elif")
             THEN Then(Parse("ParseIf", <<toks, q2>>), LAMBDA nested, q3 : Ok(<<nested>>, q3))
             ELSE Parse("ParseElse", <<toks, q2>>),
             LAMBDA orelse, q3 :
               Ok(Stmt("If", "", <<F("test", <<test>>), F("body", body),
                                   F("orelse", orelse)>>), q3))))

ParseWhile(toks, p) ==
    Then(Parse("ParseExpr", <<toks, p + 1>>), LAMBDA test, q :
      Then(Parse("ParseBlock", <<toks, q>>), LAMBDA body, q2 :
        Then(Parse("ParseElse", <<toks, q2>>), LAMBDA orelse, q3 :
          Ok(Stmt("While", "", <<F("test", <<test>>), F("body", body),
                                 F("orelse", orelse)>>), q3))))

(* The for statement whose `for` is at p; type is For or AsyncFor.         *)
ParseFor(toks, p, type) ==
    Then(Parse("ParseTargets", <<toks, p + 1>>), LAMBDA target, q :
      IF ~IsKw(toks, q, "in") THEN Fail
      ELSE Then(Parse("ParseTestList", <<toks, q + 1>>), LAMBDA iter, q2 :
             Then(Parse("ParseBlock", <<toks, q2>>), LAMBDA body, q3 :
               Then(Parse("ParseElse", <<toks, q3>>), LAMBDA orelse, q4 :
                 Ok(Stmt(type, "", <<F("target", <<target>>), F("iter", <<iter>>),
                                     F("body", body), F("orelse", orelse)>>), q4)))))

(* The function definition whose `def` is at p; type is FunctionDef or     *)
(* AsyncFunctionDef.                                                       *)
ParseDef(toks, p, type) ==
    IF TyAt(toks, p + 1) # "NAME" \/ ~IsOp(toks, p + 2, "(") THEN Fail
    ELSE Then(Parse("ParseParams", <<toks, p + 3, ")", NoParams>>), LAMBDA args, q :
           Then(IF IsOp(toks, q + 1, "->")
                THEN Then(Parse("ParseExpr", <<toks, q + 2>>), LAMBDA r, q2 : Ok(<<r>>, q2))
                ELSE Ok(<<>>, q + 1),
                LAMBDA returns, q2 :
                  Then(Parse("ParseBlock", <<toks, q2>>), LAMBDA body, q3 :
                    Ok(Stmt(type, ValAt(toks, p + 1),
                            <<F("args", <<args>>), F("body", body),
                              F("decorator_list", <<>>), F("returns", returns)>>), q3))))

ParseClass(toks, p) ==
    IF TyAt(toks, p + 1) # "NAME" THEN Fail
    ELSE Then(IF IsOp(toks, p + 2, "(")
              THEN Then(Parse("ParseCallArgs", <<toks, p + 3, <<>>, <<>>>>), LAMBDA ak, q : Ok(ak, q + 1))
              ELSE Ok(<< <<>>, <<>> >>, p + 2),
              LAMBDA ak, q :
                Then(Parse("ParseBlock", <<toks, q>>), LAMBDA body, q2 :
                  Ok(Stmt("ClassDef", ValAt(toks, p + 1),
                          <<F("bases", ak[1]), F("keywords", ak[2]), F("body", body),
                            F("decorator_list", <<>>)>>), q2)))

(* The except clauses of a try statement.                                  *)
ParseHandlers(toks, p, acc) ==
    IF ~IsKw(toks, p, "except") THEN Ok(acc, p)
    ELSE Then(IF IsOp(toks, p + 1, ":") THEN Ok(<<>>, p + 1)
              ELSE Then(Parse("ParseExpr", <<toks, p + 1>>), LAMBDA type, q :
                     IF IsKw(toks, q, "as")
                     THEN IF TyAt(toks, q + 1) = "NAME" THEN Ok(<<type>>, q + 2) ELSE Fail
                     ELSE Ok(<<type>>, q)),
              LAMBDA type, q :
                IF type = <<>> /\ IsKw(toks, p + 1, "as") THEN Fail
                ELSE Then(Parse("ParseBlock", <<toks, q>>), LAMBDA body, q2 :
                       Parse("ParseHandlers", <<toks, q2,
                           Append(acc, Stmt("ExceptHandler", "",
                                            <<F("type", type), F("body", body)>>))>>)))

ParseTry(toks, p) ==
    Then(Parse("ParseBlock", <<toks, p + 1>>), LAMBDA body, q :
      Then(Parse("ParseHandlers", <<toks, q, <<>>>>), LAMBDA handlers, q2 :
        Then(IF handlers # <<>> THEN Parse("ParseElse", <<toks, q2>>) ELSE Ok(<<>>, q2),
             LAMBDA orelse, q3 :
               Then(IF IsKw(toks, q3, "finally") THEN Parse("ParseBlock", <<toks, q3 + 1>>)
                    ELSE Ok(<<>>, q3),
                    LAMBDA finalbody, q4 :
                      IF handlers = <<>> /\ finalbody = <<>> THEN Fail
                      ELSE Ok(Stmt("Try", "",
                                   <<F("body", body), F("handlers", handlers),
                                     F("orelse", orelse), F("finalbody", finalbody)>>),
                              q4)))))

(* with expr ['as' target]: one item.                                      *)
ParseWith(toks, p) ==
    Then(Parse("ParseExpr", <<toks, p + 1>>), LAMBDA context_expr, q :
      Then(IF IsKw(toks, q, "as")
           THEN Then(Parse("ParseBin", <<toks, q + 1, 1>>), LAMBDA t, q2 :
                  IF IsTarget(t) THEN Ok(<<SetCtx(t, "Store")>>, q2) ELSE Fail)
           ELSE Ok(<<>>, q),
           LAMBDA optional_vars, q2 :
             Then(Parse("ParseBlock", <<toks, q2>>), LAMBDA body, q3 :
               Ok(Stmt("With", "",
                       <<F("items", <<Stmt("withitem", "",
                                           <<F("context_expr", <<context_expr>>),
                                             F("optional_vars", optional_vars)>>)>>),
                         F("body", body)>>), q3))))

(* The statements that the statement at p yields: one compound statement,  *)
(* or the simple statements of a line.                                     *)
ParseStmt(toks, p) ==
    LET One(r) == Then(r, LAMBDA s, q : Ok(<<s>>, q))
    IN CASE IsKw(toks, p, "if") -> One(Parse("ParseIf", <<toks, p>>))
         [] IsKw(toks, p, "while") -> One(Parse("ParseWhile", <<toks, p>>))
         [] IsKw(toks, p, "for") -> One(Parse("ParseFor", <<toks, p, "For">>))
         [] IsKw(toks, p, "def") -> One(Parse("ParseDef", <<toks, p, "FunctionDef">>))
         [] IsKw(toks, p, "class") -> One(Parse("ParseClass", <<toks, p>>))
         [] IsKw(toks, p, "try") -> One(Parse("ParseTry", <<toks, p>>))
         [] IsKw(toks, p, "with") -> One(Parse("ParseWith", <<toks, p>>))
         [] IsKw(toks, p, "async") /\ IsKw(toks, p + 1, "def") ->
               One(Parse("ParseDef", <<toks, p + 1, "AsyncFunctionDef">>))
         [] IsKw(toks, p, "async") /\ IsKw(toks, p + 1, "for") ->
               One(Parse("ParseFor", <<toks, p + 1, "AsyncFor">>))
         [] OTHER -> Parse("ParseSimpleLine", <<toks, p, <<>>>>)

(* The statements up to the end of the block or of the file.               *)
ParseStmts(toks, p, acc) ==
    IF TyAt(toks, p) \in {"DEDENT", "END"} THEN Ok(acc, p)
    ELSE Then(Parse("ParseStmt", <<toks, p>>), LAMBDA ss, q : Parse("ParseStmts", <<toks, q, acc \o ss>>))

(* The knot of the recursive descent: Parse(k, a) is production k applied  *)
(* to the arguments a.                                                    *)
Parse(k, a) ==
    CASE k = "ParseExprList" -> ParseExprList(a[1], a[2], a[3], a[4])
      [] k = "ParseTargetList" -> ParseTargetList(a[1], a[2], a[3])
      [] k = "ParseTargets" -> ParseTargets(a[1], a[2])
      [] k = "ParseCompIfs" -> ParseCompIfs(a[1], a[2], a[3])
      [] k = "ParseCompFor" -> ParseCompFor(a[1], a[2], a[3])
      [] k = "FStringValues" -> FStringValues(a[1], a[2])
      [] k = "ParseParenthesized" -> ParseParenthesized(a[1], a[2])
      [] k = "ParseListDisplay" -> ParseListDisplay(a[1], a[2])
      [] k = "ParseDictItems" -> ParseDictItems(a[1], a[2], a[3], a[4])
      [] k = "ParseBraces" -> ParseBraces(a[1], a[2])
      [] k = "ParseParams" -> ParseParams(a[1], a[2], a[3], a[4])
      [] k = "ParseAtom" -> ParseAtom(a[1], a[2])
      [] k = "ParseCallArgs" -> ParseCallArgs(a[1], a[2], a[3], a[4])
      [] k = "ParseTrailers" -> ParseTrailers(a[1], a[2], a[3])
      [] k = "ParsePower" -> ParsePower(a[1], a[2])
      [] k = "ParseFactor" -> ParseFactor(a[1], a[2])
      [] k = "ParseBinRest" -> ParseBinRest(a[1], a[2], a[3], a[4])
      [] k = "ParseBin" -> ParseBin(a[1], a[2], a[3])
      [] k = "ParseCompareRest" -> ParseCompareRest(a[1], a[2], a[3], a[4], a[5])
      [] k = "ParseCompare" -> ParseCompare(a[1], a[2])
      [] k = "ParseNot" -> ParseNot(a[1], a[2])
      [] k = "ParseBoolRest" -> ParseBoolRest(a[1], a[2], a[3], a[4])
      [] k = "ParseBool" -> ParseBool(a[1], a[2], a[3])
      [] k = "ParseExpr" -> ParseExpr(a[1], a[2])
      [] k = "ParseTestListRest" -> ParseTestListRest(a[1], a[2], a[3])
      [] k = "ParseTestList" -> ParseTestList(a[1], a[2])
      [] k = "ParseAssignRest" -> ParseAssignRest(a[1], a[2], a[3])
      [] k = "ParseSimple" -> ParseSimple(a[1], a[2])
      [] k = "ParseSimpleLine" -> ParseSimpleLine(a[1], a[2], a[3])
      [] k = "ParseBlock" -> ParseBlock(a[1], a[2])
      [] k = "ParseElse" -> ParseElse(a[1], a[2])
      [] k = "ParseIf" -> ParseIf(a[1], a[2])
      [] k = "ParseWhile" -> ParseWhile(a[1], a[2])
      [] k = "ParseFor" -> ParseFor(a[1], a[2], a[3])
      [] k = "ParseDef" -> ParseDef(a[1], a[2], a[3])
      [] k = "ParseClass" -> ParseClass(a[1], a[2])
      [] k = "ParseHandlers" -> ParseHandlers(a[1], a[2], a[3])
      [] k = "ParseTry" -> ParseTry(a[1], a[2])
      [] k = "ParseWith" -> ParseWith(a[1], a[2])
      [] k = "ParseStmt" -> ParseStmt(a[1], a[2])
      [] k = "ParseStmts" -> ParseStmts(a[1], a[2], a[3])

(* ast.parse(code): the Module node, or the failure that stands for the    *)
(* SyntaxError raised.                                                     *)
ast_parse(code) ==
    LET toks == Tokenize(code)
    IN IF \E i \in 1..Len(toks) : toks[i].ty = "ERROR" THEN Fail
       ELSE Then(Parse("ParseStmts", <<toks, 1, <<>>>>), LAMBDA body, q :
              IF TyAt(toks, q) = "END"
              THEN Ok(Stmt("Module", "", <<F("body", body), F("type_ignores", <<>>)>>), q)
              ELSE Fail)

(* ast.walk: the nodes of the tree, breadth first.                         *)
RECURSIVE WalkLevel(_)
WalkLevel(nodes) ==
    IF nodes = <<>> THEN <<>>
    ELSE nodes \o WalkLevel(Flatten([i \in 1..Len(nodes) |-> iter_child_nodes(nodes[i])]))

ast_walk(tree) ==
 WalkLevel(<<tree>>)

-----------------------------------------------------------------------------
(* ImprovedPythonAnalyzer (packages/core/python/python_analyzer.py)        *)

(* The characters in the order of their code points, for the comparison of *)
(* strings by sorted().                                                    *)
CodePointOrder ==
    "\t\n !\"#$%&'()*+,-./" \o AsciiDigits \o ":;<=>?@" \o AsciiUpper \o "[\\]_"
    \o BACKTICK \o AsciiLower \o "{|}~"

(* a <= b on str                                                           *)
StrLeq(a, b) ==
    LET diffs == {i \in 1..Min2(Len(a), Len(b)) : Ch(a, i) # Ch(b, i)}
    IN IF diffs = {} THEN Len(a) <= Len(b)
       ELSE LET i == CHOOSE d \in diffs : \A e \in diffs : d <= e
            IN IndexIn(CodePointOrder, Ch(a, i)) < IndexIn(CodePointOrder, Ch(b, i))

(* math.sqrt, rounded down to a whole number: the root lies in lo..hi.     *)
RECURSIVE IsqrtIn(_, _, _)
IsqrtIn(n, lo, hi) ==
    IF lo >= hi THEN lo
    ELSE LET mid == (lo + hi + 1) \div 2
         IN IF mid * mid <= n THEN IsqrtIn(n, mid, hi) ELSE IsqrtIn(n, lo, mid - 1)

SQRT_MAX == 46340
Isqrt(n) == IsqrtIn(n, 0, SQRT_MAX)

(* _std_dev, in units of 1 / UNIT: sqrt(sum((x - mean) ** 2) / len), which *)
(* is sqrt(len * sum(x * x) - sum(x) ** 2) / len.                          *)
_std_dev(values) ==
    IF Len(values) < 2 THEN 0
    ELSE LET n == Len(values)
             squares == SeqSum([i \in 1..n |-> values[i] * values[i]])
             total == SeqSum(values)
         IN Isqrt((n * squares - total * total) * UNIT * UNIT) \div n

(* _is_main_guard                                                          *)
_is_main_guard(node) ==
    LET test == Field(node, "test")[1]
        left == Field(test, "left")[1]
        ops == Field(test, "ops")
        comparators == Field(test, "comparators")
    IN /\ test.type = "Compare"
       /\ left.type = "Name" /\ left.name = "__name__"
       /\ \E i \in 1..Len(ops) : ops[i].type = "Eq"
       /\ \E i \in 1..Len(comparators) :
              /\ comparators[i].type = "Constant"
              /\ comparators[i].value = StrV("__main__")

(* bool(ast.get_docstring(func)): the body opens with a string constant    *)
(* that is not blank.                                                      *)
HasDocstring(func) ==
    LET body == Field(func, "body")
        value == Field(body[1], "value")[1]
    IN /\ body # <<>> /\ body[1].type = "Expr"
       /\ value.type = "Constant" /\ value.value.t = "str"
       /\ Strip(value.value.s) # ""

(* _analyze_import_organization                                            *)
_analyze_import_organization(lines) ==
    LET at == SelectSeq([i \in 1..Len(lines) |-> i],
                        LAMBDA i : StartsWithAny(Strip(lines[i]), {"import ", "from "}))
        text(k) == Strip(lines[at[k]])
        starts == {k \in 1..Len(at) : k = 1 \/ at[k] - at[k - 1] # 1}
        last(g) == CHOOSE k \in g..Len(at) :
                      /\ \A j \in (g + 1)..k : j \notin starts
                      /\ (k = Len(at) \/ k + 1 \in starts)
        sorted_score ==
            Cardinality({g \in starts :
                            \A k \in g..(last(g) - 1) : StrLeq(text(k), text(k + 1))})
    IN IF Len(at) < 2 THEN 0 ELSE Ratio(sorted_score, Cardinality(starts))

OfType(nodes, types) == SelectSeq(nodes, LAMBDA node : node.type \in types)

(* _extract_structural_patterns, for a parsed tree                         *)
PyStructuralPatterns(lines, nodes) ==
    LET functions == OfType(nodes, {"FunctionDef"})
        func_lengths == [i \in 1..Len(functions) |-> Len(Field(functions[i], "body"))]
    IN Update(PyStructuralInit,
         [ has_main_guard |->
               BoolV(\E i \in 1..Len(nodes) :
                        nodes[i].type = "If" /\ _is_main_guard(nodes[i])),
           has_docstrings |->
               BoolV(\E i \in 1..Len(functions) : HasDocstring(functions[i])),
           function_length_variance |->
               FloatV(IF Len(func_lengths) > 1 THEN _std_dev(func_lengths) ELSE 0),
           uses_comprehensions |->
               BoolV(OfType(nodes, {"ListComp", "DictComp", "SetComp", "GeneratorExp"})
                     # <<>>),
           uses_walrus_operator |-> BoolV(OfType(nodes, {"NamedExpr"}) # <<>>),
           uses_f_strings |-> BoolV(OfType(nodes, {"JoinedStr"}) # <<>>),
           import_organization_score |-> FloatV(_analyze_import_organization(lines)) ])

PyMeaningless == {"tmp", "temp", "var", "val", "res", "ret", "obj", "item"}

(* _extract_naming_patterns, for a parsed tree                             *)
PyNamingPatterns(nodes) ==
    LET named == OfType(nodes, {"Name", "FunctionDef", "ClassDef"})
        names == [i \in 1..Len(named) |-> named[i].name]
        snake_case_count == Count(names, _is_snake_case)
        single_letter == SelectSeq(names,
                            LAMBDA n : Len(n) = 1 /\ n \notin Chars("ijkxyz"))
        meaningful == SelectSeq(names,
                            LAMBDA n : Len(n) > 3 /\ Lower(n) \notin PyMeaningless)
        lengths == [i \in 1..Len(names) |-> Len(names[i])]
    IN IF names = <<>> THEN PyNamingInit
       ELSE Update(PyNamingInit,
          [ uses_snake_case_ratio   |-> FloatV(Ratio(snake_case_count, Len(names))),
            single_letter_var_ratio |-> FloatV(Ratio(Len(single_letter), Len(names))),
            avg_name_length         |-> FloatV(Ratio(SeqSum(lengths), Len(names))),
            meaningful_name_ratio   |-> FloatV(Ratio(Len(meaningful), Len(names))) ])

(* The subclasses of ast.stmt                                              *)
StmtTypes ==
    {"FunctionDef", "AsyncFunctionDef", "ClassDef", "Return", "Delete", "Assign",
     "AugAssign", "AnnAssign", "For", "AsyncFor", "While", "If", "With", "AsyncWith",
     "Match", "Raise", "Try", "TryStar", "Assert", "Import", "ImportFrom", "Global",
     "Nonlocal", "Expr", "Pass", "Break", "Continue"}

(* _calculate_pattern_repetition, up to `if len(patterns) < 5`             *)
PyPatterns(nodes) ==
    LET stmts == OfType(nodes, StmtTypes)
    IN [i \in 1..Len(stmts) |-> stmts[i].type]

PyIndentationConsistency(lines) ==
    LET indents == Indents(lines)
        base_indent == CHOOSE m \in {indents[n] : n \in 1..Len(indents)} :
                          \A n \in 1..Len(indents) : m <= indents[n]
        consistent == \A n \in 1..Len(indents) : indents[n] % base_indent = 0
    IN IF indents = <<>> THEN 0 ELSE IF consistent THEN UNIT ELSE UNIT \div 2

PyQuoteConsistency(code) ==
    LET single_quotes == CountChar(code, "'")
        double_quotes == CountChar(code, "\"")
        total_quotes == single_quotes + double_quotes
    IN IF total_quotes > 0
       THEN Ratio(Max2(single_quotes, double_quotes), total_quotes) ELSE 0

(* _extract_consistency_metrics                                            *)
PyConsistencyMetrics(code, lines, nodes) ==
    Update(PyConsistencyInit,
      [ indentation_consistency  |-> FloatV(PyIndentationConsistency(lines)),
        quote_consistency        |-> FloatV(PyQuoteConsistency(code)),
        pattern_repetition_score |-> FloatV(PatternRepetition(PyPatterns(nodes))) ])

\* todo_pattern, under re.IGNORECASE: matched against the lowered text
PyTodoPattern ==
    Cat(<<Lit("#"), Star(Ws),
          AnyOfLower(<<"TODO", "FIXME", "HACK", "XXX", "BUG", "REFACTOR">>)>>)
PyDebugPattern ==
    Alt(<<Cat(<<Lit("print"), Star(Ws), Lit("("), In({"\"", "'"}), Lit("debug")>>),
          Lit("console.log"), Lit("debugger")>>)
PyCommentedCodePattern ==
    Cat(<<Lit("#"), Star(Ws),
          AnyOf(<<"if", "for", "while", "def", "class", "import", "return">>), Ws>>)

NotMagic == {0, 1, 2, -1, 10, 100, 1000}

(* isinstance(node, ast.Constant) and isinstance(node.value, (int, float)) *)
(* and node.value not in (0, 1, 2, -1, 10, 100, 1000)                      *)
IsMagicNumber(node) ==
    /\ node.type = "Constant"
    /\ node.value.t \in {"bool", "int"}
    /\ node.value.n \notin NotMagic

TrailingWhitespace(lines) == \E i \in 1..Len(lines) : RStrip(lines[i]) # lines[i]

(* _extract_code_smell_indicators                                          *)
PyCodeSmellIndicators(code, lines, nodes) ==
    Update(PySmellInit,
      [ has_todo_comments       |-> BoolV(Call("Search", <<PyTodoPattern, Lower(code)>>)),
        has_debug_prints        |-> BoolV(Call("Search", <<PyDebugPattern, code>>)),
        has_commented_code      |-> BoolV(Call("Search", <<PyCommentedCodePattern, code>>)),
        has_magic_numbers       |-> BoolV(\E i \in 1..Len(nodes) : IsMagicNumber(nodes[i])),
        has_long_lines          |-> BoolV(LongLines(lines)),
        has_trailing_whitespace |-> BoolV(TrailingWhitespace(lines)) ])

\* generic_pattern and placeholder_pattern, under re.IGNORECASE
PyGenericPattern ==
    Cat(<<WordB, AnyOfLower(<<"foo", "bar", "baz", "example", "test", "sample", "demo">>),
          WordB>>)
PyPlaceholderPattern ==
    AnyOfLower(<<"Your", "TODO:", "FIXME:", "INSERT", "REPLACE", "your_", "my_", "some_">>)

(* min(avg_comment_length / 80, 1.0)                                       *)
OverExplanationScore(lines) ==
    LET comment_lines == SelectSeq(lines, LAMBDA l : StartsWith(Strip(l), "#"))
        total == SeqSum([i \in 1..Len(comment_lines) |-> Len(comment_lines[i])])
    IN Min2((total * UNIT) \div (Max2(Len(comment_lines), 1) * 80), UNIT)

(* A variant of _extract_ai_specific_patterns that also computes           *)
(* uniform_complexity: 1.0 for a text with lines.                          *)
PyAiUniformComplexity(code, lines) ==
    LET scored ==
          [ generic_example_score |-> FloatV(GenericExampleScore(PyGenericPattern, code, lines)),
            placeholder_score     |-> FloatV(PlaceholderScore(PyPlaceholderPattern, code)) ]
    IN IF Len(lines) > 0
       THEN Update(Update(PyAiInit, scored),
                   [ over_explanation_score |-> FloatV(OverExplanationScore(lines)),
                     uniform_complexity     |-> FloatV(UNIT) ])
       ELSE Update(PyAiInit, scored)

(* _extract_ai_specific_patterns                                           *)
PyAiSpecificPatterns(code, lines) ==
    LET scored ==
          [ generic_example_score |-> FloatV(GenericExampleScore(PyGenericPattern, code, lines)),
            placeholder_score     |-> FloatV(PlaceholderScore(PyPlaceholderPattern, code)) ]
    IN IF Len(lines) > 0
       THEN Update(Update(PyAiInit, scored),
                   [ over_explanation_score |-> FloatV(OverExplanationScore(lines)) ])
       ELSE Update(PyAiInit, scored)

(* A variant of extract_all_features that computes the signals taken from  *)
(* the text alone also for a text that does not parse.                     *)
PyExtractTextSignals(code) ==
    LET lines == SplitLines(code)
        parsed == Call("ast_parse", <<code>>)
        nodes == Call("ast_walk", <<parsed.n>>)
    IN IF ~parsed.ok
       THEN Update(_get_default_features, PyAiSpecificPatterns(code, lines))
       ELSE Update(Update(Update(Update(
                PyStructuralPatterns(lines, nodes),
                PyNamingPatterns(nodes)),
                PyConsistencyMetrics(code, lines, nodes)),
                PyCodeSmellIndicators(code, lines, nodes)),
                PyAiSpecificPatterns(code, lines))

(* ImprovedPythonAnalyzer.extract_all_features                             *)
PyExtractAllFeatures(code) ==
    LET lines == SplitLines(code)
        parsed == Call("ast_parse", <<code>>)
        nodes == Call("ast_walk", <<parsed.n>>)
    IN IF ~parsed.ok THEN _get_default_features
       ELSE Update(Update(Update(Update(
                PyStructuralPatterns(lines, nodes),
                PyNamingPatterns(nodes)),
                PyConsistencyMetrics(code, lines, nodes)),
                PyCodeSmellIndicators(code, lines, nodes)),
                PyAiSpecificPatterns(code, lines))

-----------------------------------------------------------------------------
(* analyze_python_code and analyze_javascript_code                         *)

(* The probability as a float of the signal vector, in units of            *)
(* 1 / PROB_ONE.                                                           *)
ProbV(p) == [t |-> "float", n |-> p, s |-> ""]

(* features = analyzer.extract_all_features() of the engine's analyzer     *)
ExtractAllFeatures(engine, code) ==
    IF engine = "python" THEN PyExtractAllFeatures(code) ELSE JsExtractAllFeatures(code)

(* Call(k, a): operator k applied to the arguments a.                     *)
Call(k, a) ==
    CASE k = "FindAll" -> FindAll(a[1], a[2])
      [] k = "MatchStart" -> MatchStart(a[1], a[2])
      [] k = "Search" -> Search(a[1], a[2])
      [] k = "FindAllText" -> FindAllText(a[1], a[2])
      [] k = "ast_parse" -> ast_parse(a[1])
      [] k = "ast_walk" -> ast_walk(a[1])
      [] k = "ExtractAllFeatures" -> ExtractAllFeatures(a[1], a[2])

(* Mutant of AddConfidenceKey: the key holds the probability rounded down  *)
(* to whole percents.                                                      *)
AddConfidencePercent(features, confidence) ==
    Update(features, [confidence |-> ProbV((confidence \div 100) * 100)])

(* features['confidence'] = confidence                                     *)
AddConfidenceKey(features, confidence) ==
    Update(features, [confidence |-> ProbV(confidence)])

-----------------------------------------------------------------------------
(* The texts and the language selectors that requests carry.               *)

(* Python that parses, with the marks of hand-written code.                *)
PY_HUMAN == "x = 42  \n# TODO fix\nprint('debug', x)\n# if x then\n"
(* Python that does not parse, with a TODO comment.                        *)
PY_BROKEN == "# TODO fix\ndef (:\n"
(* Python that parses, tidy and full of generic names.                     *)
PY_TIDY ==
    "import os\nimport sys\ndef foo(bar):\n    \"\"\"Example.\"\"\"\n"
    \o "    test = bar\n    demo = test\n    return demo\n"
(* JavaScript, with the marks of hand-written code.                        *)
JS_HUMAN == "var x = 1;\n// TODO fix\nconsole.log(x);\ndebugger;\nalert(x);\n"
(* Not code at all.                                                        *)
GIBBERISH == "hello world\n"

(* U+DCFF, the character that the error handler 'surrogateescape' makes of *)
(* the byte 0xFF, which is not UTF-8.  It is written "?" here: like U+DCFF  *)
(* it is no word character, no space and part of no Python token, and the  *)
(* analyzers return the same for both.                                     *)
SURROGATE == "?"
(* The text of the single byte 0xFF on stdin; in a JSON body, "\udcff".     *)
STDIN_ESCAPED == SURROGATE

Codes == {PY_HUMAN, PY_BROKEN, PY_TIDY, JS_HUMAN, GIBBERISH, STDIN_ESCAPED}

(* request.language: a string, or None (JSON null); sys.argv[1]: a string  *)
ApiLanguages ==
    {StrV("python"), StrV("Python"), StrV("javascript"), StrV("JAVASCRIPT"),
     StrV("ruby"), NoneV}
CliLanguages == {l \in ApiLanguages : l.t = "str"}

(* The routes of packages/api/main.py; the third boundary shell,           *)
(* packages/core/python/analyze.py, is the shell "cli" of a request.       *)
ApiShells == {"/basic", "/premium"}

(* The signal vectors of the texts, per engine.                            *)
FeatureTable ==
    [engine \in {"python", "javascript"} |->
        [code \in Codes |-> Call("ExtractAllFeatures", <<engine, code>>)]]
-----------------------------------------------------------------------------
(* Requests.  A request is one call of a route of packages/api/main.py or  *)
(* one run of packages/core/python/analyze.py; req[r] holds its inputs,    *)
(* its locals, the objects it has constructed and its response.            *)

NoFeatures == [k \in {} |-> NoneV]

IdleRequest ==
    [ pc             |-> "idle",
      shell          |-> "",
      argc           |-> 0,
      language       |-> NoneV,
      mode           |-> "",
      code           |-> "",
      lang           |-> "",
      engine         |-> "",
      analyzer       |-> [code |-> ""],
      weights        |-> NoFeatures,
      features       |-> NoFeatures,
      classification |-> "",
      confidence     |-> 0,
      response       |-> [status |-> 0, body |-> NoFeatures] ]

ReqIdle == [r \in 1..NReq |-> IdleRequest]

(* No extractor object of the older analyzers has been constructed, and    *)
(* the signal harness holds no text.                                       *)
ExtNone == [kind |-> "none"]
SigNone == [engine |-> "none"]

(* result = 1 if classification == "AI-Generated Code" else 0              *)
ResultOf(classification) == IF classification = "AI-Generated Code" THEN 1 ELSE 0

(* The response of a route whose handler raised e inside its try block:    *)
(* `except Exception as e: raise HTTPException(status_code=500,            *)
(* detail=str(e))`.                                                        *)
HttpError(detail) == [status |-> 500, body |-> [detail |-> detail]]

(* str(e) of the HTTPException(status_code=400, detail=...) that the       *)
(* routes raise inside their try block.  The installed Starlette decides:  *)
(* releases without HTTPException.__str__ give "", later ones              *)
(* "<status_code>: <detail>".                                              *)
StrOfHttpException(status_code, detail) ==
    {"", (IF status_code = 400 THEN "400" ELSE "500") \o ": " \o detail}

(* The CLI's error document and exit status 1                              *)
CliError(message) == [status |-> 1, body |-> [error |-> message]]

(* str(e) of the AttributeError of None.lower()                            *)
NONE_LOWER == "'NoneType' object has no attribute 'lower'"
(* str(e) of the OverflowError of math.exp                                 *)
MATH_RANGE == "math range error"

(* analyze.py has ended with a traceback on stderr: nothing was written    *)
(* to stdout, and the interpreter exits with status 1.                     *)
CliTraceback == [status |-> 1, body |-> NoFeatures]

(* The error handlers sys.stdin may have: 'strict', or 'surrogateescape'   *)
(* when the interpreter was started in the C or POSIX locale.              *)
StdinErrors == {"strict", "surrogateescape"}

(* code = sys.stdin.read().  `code` stands for the bytes on stdin, written *)
(* as the text that 'surrogateescape' makes of them; 'strict' raises       *)
(* UnicodeDecodeError on bytes that are not UTF-8.                          *)
StdinRead(code, errors) ==
    IF errors = "strict" /\ CountChar(code, SURROGATE) > 0
    THEN [raised |-> "UnicodeDecodeError", text |-> ""]
    ELSE [raised |-> "", text |-> code]

(* Mutant of SelfCode: the analyzer is a module-level object that the       *)
(* first worker's request overwrites.                                      *)
SelfCodeShared(rq, r) ==
    IF rq[1].analyzer.code # "" THEN rq[1].analyzer.code ELSE rq[r].analyzer.code

(* self.code of the analyzer that request r constructed                    *)
SelfCode(rq, r) == rq[r].analyzer.code

(* extract_all_features() of the analyzer of engine `engine` on `code`     *)
FeaturesOf(engine, code) == FeatureTable[engine][code]

(* A request arrives: POST /basic or /premium with a JSON body, or         *)
(* analyze.py started with one or two arguments and the code on stdin.     *)
Receive(r) ==
    /\ req[r].pc = "idle"
    /\ \E code \in Codes :
         \/ \E shell \in ApiShells, language \in ApiLanguages :
              req' = [req EXCEPT ![r] =
                  [IdleRequest EXCEPT !.pc = "received", !.shell = shell,
                                      !.language = language, !.code = code]]
         \/ \E language \in CliLanguages, mode \in {"", "basic", "detailed"} :
              req' = [req EXCEPT ![r] =
                  [IdleRequest EXCEPT !.pc = "received", !.shell = "cli",
                                      !.argc = IF mode = "" THEN 2 ELSE 3,
                                      !.language = language, !.mode = mode,
                                      !.code = code]]
    /\ UNCHANGED <<cv, cw, cres, cprev, cedits, ext, sig>>

(* The route up to the construction of the analyzer:                       *)
(* language = request.language.lower(), the if / elif / else on it, and    *)
(* the first statement of analyze_*_code.  What is raised inside the try   *)
(* block, the HTTPException of the else branch included, is caught by      *)
(* `except Exception` and answered with status 500.                        *)
DispatchApi(r) ==
    /\ req[r].pc = "received"
    /\ req[r].shell \in ApiShells
    /\ IF req[r].language.t # "str"
       THEN req' = [req EXCEPT ![r].pc = "done",
                               ![r].response = HttpError(NONE_LOWER)]
       ELSE LET language == Lower(req[r].language.s)
            IN IF language \in {"python", "javascript"}
               THEN req' = [req EXCEPT ![r].pc = "analyzer",
                                       ![r].lang = language,
                                       ![r].engine = language,
                                       ![r].analyzer = [code |-> req[r].code]]
               ELSE \E detail \in StrOfHttpException(400,
                                      "Unsupported language: " \o language) :
                       req' = [req EXCEPT ![r].pc = "done",
                                          ![r].lang = language,
                                          ![r].response = HttpError(detail)]
    /\ UNCHANGED <<cv, cw, cres, cprev, cedits, ext, sig>>

(* analyze.py main up to the construction of the analyzer: the argument    *)
(* count, language = sys.argv[1] as given, code = sys.stdin.read() before  *)
(* the try block (an exception of it ends the process with a traceback),   *)
(* and the if / elif / else on the language.  sys.exit(1) raises           *)
(* SystemExit, which `except Exception` lets through.                      *)
DispatchCli(r) ==
    /\ req[r].pc = "received"
    /\ req[r].shell = "cli"
    /\ IF req[r].argc < 3
       THEN req' = [req EXCEPT ![r].pc = "done",
                               ![r].response = CliError("Missing arguments")]
       ELSE \E errors \in StdinErrors :
            LET language == req[r].language.s
                read == StdinRead(req[r].code, errors)
            IN IF read.raised # ""
               THEN req' = [req EXCEPT ![r].pc = "done",
                                       ![r].response = CliTraceback]
               ELSE IF language \in {"python", "javascript"}
               THEN req' = [req EXCEPT ![r].pc = "analyzer",
                                       ![r].lang = language,
                                       ![r].engine = language,
                                       ![r].analyzer = [code |-> read.text]]
               ELSE req' = [req EXCEPT ![r].pc = "done",
                                       ![r].lang = language,
                                       ![r].response =
                                           CliError("Unsupported language: " \o language)]
    /\ UNCHANGED <<cv, cw, cres, cprev, cedits, ext, sig>>

(* features = analyzer.extract_all_features()                              *)
Extract(r) ==
    /\ req[r].pc = "analyzer"
    /\ req' = [req EXCEPT ![r].pc = "extracted",
                          ![r].features = FeaturesOf(req[r].engine, SelfCode(req, r))]
    /\ UNCHANGED <<cv, cw, cres, cprev, cedits, ext, sig>>

(* classifier = ImprovedClassifier() / ImprovedJSClassifier(): __init__    *)
(* builds the object's own weights dict.                                   *)
Construct(r) ==
    /\ req[r].pc = "extracted"
    /\ req' = [req EXCEPT ![r].pc = "classifier",
                          ![r].weights = WeightsOf(req[r].engine)]
    /\ UNCHANGED <<cv, cw, cres, cprev, cedits, ext, sig>>

(* classification, confidence = classifier.classify(features); an          *)
(* exception of classify reaches the shell's `except Exception`.           *)
Classify(r) ==
    /\ req[r].pc = "classifier"
    /\ LET res == classify(req[r].features, req[r].weights)
       IN IF res.raised # ""
          THEN req' = [req EXCEPT ![r].pc = "done",
                          ![r].response = IF req[r].shell = "cli"
                                          THEN CliError(MATH_RANGE)
                                          ELSE HttpError(MATH_RANGE)]
          ELSE req' = [req EXCEPT ![r].pc = "classified",
                          ![r].classification = res.classification,
                          ![r].confidence = res.probability]
    /\ UNCHANGED <<cv, cw, cres, cprev, cedits, ext, sig>>

(* features['confidence'] = confidence; return features, classification    *)
AddConfidence(r) ==
    /\ req[r].pc = "classified"
    /\ req' = [req EXCEPT ![r].pc = "analyzed",
                          ![r].features = AddConfidenceKey(req[r].features,
                                                           req[r].confidence)]
    /\ UNCHANGED <<cv, cw, cres, cprev, cedits, ext, sig>>

-----------------------------------------------------------------------------
(* Classifier harness: classify as a function of an arbitrary signal       *)
(* vector.  A vector starts as one of the two engines' all-default         *)
(* vectors and is edited one signal at a time; every edit re-runs classify *)
(* of the matching classifier.                                             *)

JsEmptyFeatures ==
    Update(Update(Update(Update(Update(JsStructuralInit, JsNamingInit),
        JsConsistencyInit), JsSmellInit), JsAiInit), JsSpecificInit)

BaseVector(lang) ==
    IF lang = "python" THEN _get_default_features ELSE JsEmptyFeatures

(* The signals the harness edits: weights of either sign, a zero weight,   *)
(* signals outside the weight table, and one key no extractor emits.       *)
ProbeKeys(lang) ==
    IF lang = "python"
    THEN {"pattern_repetition_score", "generic_example_score", "has_todo_comments",
          "function_length_variance", "uses_f_strings", "meaningful_name_ratio",
          "nested_function_depth", "confidence"}
    ELSE {"pattern_repetition_score", "generic_example_score", "has_todo_comments",
          "has_debugger", "uses_destructuring", "meaningful_name_ratio",
          "module_pattern", "confidence"}

(* The values an edit may store: booleans, ratios, values beyond 1.0       *)
(* (2.824 and 2.825 put a weight of 3.0 on either side of a threshold),    *)
(* an integer, a very large variance, and a string.                        *)
ProbeValues ==
    { BoolV(TRUE), BoolV(FALSE), FloatV(0), FloatV(500), FloatV(1000),
      FloatV(2824), FloatV(2825), FloatV(5000000), IntV(3), StrV("es6") }

ClsInit ==
    /\ req = ReqIdle
    /\ cw \in {"python", "javascript"}
    /\ cv = BaseVector(cw)
    /\ cres = classify(cv, WeightsOf(cw))
    /\ cprev = [v |-> cv, res |-> cres]
    /\ cedits = 0
    /\ ext = ExtNone
    /\ sig = SigNone

(* Store value v under key k (a new key extends the vector) and classify.  *)
ClsSet(k, v) ==
    /\ cedits < MaxEdits
    /\ cv' = Update(cv, [j \in {k} |-> v])
    /\ cv' # cv
    /\ cres' = classify(cv', WeightsOf(cw))
    /\ cprev' = [v |-> cv, res |-> cres]
    /\ cedits' = cedits + 1
    /\ UNCHANGED <<req, cw, ext, sig>>

(* Remove key k from the vector and classify.                              *)
ClsDrop(k) ==
    /\ cedits < MaxEdits
    /\ k \in DOMAIN cv
    /\ cv' = [j \in DOMAIN cv \ {k} |-> cv[j]]
    /\ cres' = classify(cv', WeightsOf(cw))
    /\ cprev' = [v |-> cv, res |-> cres]
    /\ cedits' = cedits + 1
    /\ UNCHANGED <<req, cw, ext, sig>>

ClsNext ==
    \/ \E k \in ProbeKeys(cw) : \E v \in ProbeValues : ClsSet(k, v)
    \/ \E k \in ProbeKeys(cw) : ClsDrop(k)

ClassifySpec == ClsInit /\ [][ClsNext]_vars

-----------------------------------------------------------------------------
(* The responses of the boundary shells, and the request machine.          *)

(* mapped_features of analyze.py: features.get(key, 0) for the keys of     *)
(* the older interface, total_lines counted from the text.                 *)
Get(features, key, default) ==
    IF key \in DOMAIN features THEN features[key] ELSE default

MappedFeatures(features, code) ==
    [ token_entropy    |-> Get(features, "token_entropy", IntV(0)),
      comment_ratio    |-> Get(features, "comment_ratio", IntV(0)),
      total_lines      |-> IntV(Len(SplitLines(code))),
      function_count   |-> Get(features, "function_count", IntV(0)),
      loop_count       |-> Get(features, "loop_count", IntV(0)),
      try_except_count |-> Get(features, "try_except_count", IntV(0)),
      max_ast_depth    |-> Get(features, "max_ast_depth", IntV(0)) ]

(* The response of basic_analysis / premium_analysis                       *)
ApiResponse(q) ==
    IF q.shell = "/basic"
    THEN [status |-> 200, body |-> [result |-> ResultOf(q.classification)]]
    ELSE [status |-> 200,
          body |-> [result |-> ResultOf(q.classification),
                    language |-> q.lang,
                    classification |-> q.classification,
                    features |-> q.features]]

(* The document analyze.py prints, and exit status 0                       *)
CliResponse(q) ==
    LET mapped_features == MappedFeatures(q.features, q.code)
    IN [status |-> 0,
        body |-> [result |-> ResultOf(q.classification),
                  classification |-> q.classification,
                  language |-> q.lang,
                  features |->
                      IF q.mode = "basic"
                      THEN [token_entropy |-> mapped_features.token_entropy,
                            comment_ratio |-> mapped_features.comment_ratio,
                            total_lines   |-> mapped_features.total_lines]
                      ELSE Update(mapped_features, q.features)]]

(* The rest of the handler: result, the response object, the return or     *)
(* the print.                                                              *)
Respond(r) ==
    /\ req[r].pc = "analyzed"
    /\ req' = [req EXCEPT ![r].pc = "done",
                          ![r].response = IF req[r].shell = "cli"
                                          THEN CliResponse(req[r])
                                          ELSE ApiResponse(req[r])]
    /\ UNCHANGED <<cv, cw, cres, cprev, cedits, ext, sig>>

(* The response has been delivered; the handler's locals and objects are   *)
(* gone, and the worker or a new process takes the next request.           *)
Finish(r) ==
    /\ req[r].pc = "done"
    /\ req' = [req EXCEPT ![r] = IdleRequest]
    /\ UNCHANGED <<cv, cw, cres, cprev, cedits, ext, sig>>

Init ==
    /\ req = ReqIdle
    /\ cw = "python"
    /\ cv = BaseVector(cw)
    /\ cres = classify(cv, WeightsOf(cw))
    /\ cprev = [v |-> cv, res |-> cres]
    /\ cedits = 0
    /\ ext = ExtNone
    /\ sig = SigNone

Next ==
    \E r \in 1..NReq :
        \/ Receive(r)
        \/ DispatchApi(r)
        \/ DispatchCli(r)
        \/ Extract(r)
        \/ Construct(r)
        \/ Classify(r)
        \/ AddConfidence(r)
        \/ Respond(r)
        \/ Finish(r)

Spec == Init /\ [][Next]_vars

-----------------------------------------------------------------------------
(* PythonFeatureExtractor.ast_features of backend/analyzers/               *)
(* python_analyzer.py, the older engine: the counts of a walk of the tree, *)
(* or zeros when ast.parse raises.                                         *)

LegacyZero ==
    [function_count |-> 0, loop_count |-> 0, try_except_count |-> 0, max_depth |-> 0]

RECURSIVE visit(_, _, _)
RECURSIVE VisitChildren(_, _, _, _)

(* Mutant of VisitChildren: only the first child of a node is visited.     *)
VisitFirstChild(children, i, depth, features) ==
    IF children = <<>> THEN features ELSE visit(children[1], depth, features)

(* visit(node, depth): `features` is the dict the closure updates.         *)
visit(node, depth, features) ==
    LET counted ==
          [ function_count   |-> features.function_count
                                 + IF node.type = "FunctionDef" THEN 1 ELSE 0,
            loop_count       |-> features.loop_count
                                 + IF node.type \in {"For", "While"} THEN 1 ELSE 0,
            try_except_count |-> features.try_except_count
                                 + IF node.type = "Try" THEN 1 ELSE 0,
            max_depth        |-> Max2(features.max_depth, depth) ]
    IN VisitChildren(iter_child_nodes(node), 1, depth + 1, counted)

(* for child in ast.iter_child_nodes(node): visit(child, depth + 1)        *)
VisitChildren(children, i, depth, features) ==
    IF i > Len(children) THEN features
    ELSE VisitChildren(children, i + 1, depth, visit(children[i], depth, features))

ast_features(code) ==
    LET parsed == ast_parse(code)
    IN IF ~parsed.ok THEN LegacyZero ELSE visit(parsed.n, 0, LegacyZero)

-----------------------------------------------------------------------------
(* The older analyzers' comment_ratio (backend/analyzers, backend/main.py):*)
(* a function of the text alone.                                           *)

JsLineComment == Cat(<<Lit("//"), Star(Dot)>>)
JsBlockComment == Cat(<<Lit("/*"), LazyStar(NotIn({})), Lit("*/")>>)

(* count_comments: PythonFeatureExtractor counts the lines that start with *)
(* '#' once stripped; JavaScriptFeatureExtractor adds the // matches and   *)
(* the lines of the /* */ matches.                                         *)
count_comments(kind, code) ==
    IF kind = "python"
    THEN Len(SelectSeq(SplitLines(code), LAMBDA line : StartsWith(Strip(line), "#")))
    ELSE LET multi_line_comments == Call("FindAllText", <<JsBlockComment, code>>)
         IN Len(Call("FindAll", <<JsLineComment, code>>))
            + SeqSum([i \in 1..Len(multi_line_comments) |->
                         CountChar(multi_line_comments[i], "\n") + 1])

(* comment_ratio, in units of 1 / UNIT                                     *)
comment_ratio(kind, code) ==
    LET total_lines == Len(SplitLines(code))
    IN IF total_lines = 0 THEN 0 ELSE Ratio(count_comments(kind, code), total_lines)

-----------------------------------------------------------------------------
(* Signal harness: the signals as functions of the text.  A text is built  *)
(* line by line from the lines of its engine's pool, starting from the     *)
(* empty string, and every text is given to extract_all_features of the    *)
(* improved analyzer and to comment_ratio of the older one.                *)

MaxLines == 3    \* lines of a text of the signal harness

PyLinePool ==
    {"a = 1; b = 2; c = 3", "if a:", "    total = 'x'", "# a note", "import os",
     "   b = 1", "# TODO: your_ my_ some_ foo bar"}
JsLinePool ==
    {"function a() {}", "c = x => 1;", "/* // */",
     "if (a) return b; var c = 'x'", "  let total = \"y\"",
     "module.exports = a", "export default a", "// TODO: your- my- INSERT foo bar"}
LinePool(engine) == IF engine = "python" THEN PyLinePool ELSE JsLinePool

(* The text whose lines are `lines`, each ended by a newline.              *)
RECURSIVE JoinLines(_)
JoinLines(lines) ==
    IF lines = <<>> THEN "" ELSE lines[1] \o "\n" \o JoinLines(Tail(lines))

SigOf(engine, lines) ==
    LET code == JoinLines(lines)
    IN [ engine        |-> engine,
         lines         |-> lines,
         code          |-> code,
         features      |-> Call("ExtractAllFeatures", <<engine, code>>),
         comment_ratio |-> comment_ratio(engine, code) ]

SigInit ==
    /\ req = ReqIdle
    /\ cw = "python"
    /\ cv = BaseVector(cw)
    /\ cres = classify(cv, WeightsOf(cw))
    /\ cprev = [v |-> cv, res |-> cres]
    /\ cedits = 0
    /\ ext = ExtNone
    /\ sig \in {SigOf(engine, <<>>) : engine \in {"python", "javascript"}}

(* One more line at the end of the text.                                   *)
SigAppend(line) ==
    /\ Len(sig.lines) < MaxLines
    /\ sig' = SigOf(sig.engine, Append(sig.lines, line))
    /\ UNCHANGED <<req, cv, cw, cres, cprev, cedits, ext>>

SigNext == \E line \in LinePool(sig.engine) : SigAppend(line)

SignalSpec == SigInit /\ [][SigNext]_vars

-----------------------------------------------------------------------------
(* Repetition harness: pattern_repetition_score of two texts of one        *)
(* engine.  Text b is a sample of 20 lines with one statement (Python) or  *)
(* one keyword (JavaScript) per line, in which no three consecutive ones   *)
(* occur twice; it is given line by line, and then text a is built from    *)
(* the lines of a pool of two.  Every text is given to                     *)
(* extract_all_features of the improved analyzer.                          *)

MaxLinesA == 6    \* lines of text a of the repetition harness

PyRepSample ==
    <<"a = 1", "a = 1", "a = 1", "pass", "a = 1", "a = 1", "a", "a = 1", "pass", "pass",
      "a = 1", "pass", "a", "a = 1", "a", "pass", "a = 1", "a", "a", "a = 1">>
JsRepSample ==
    <<"if (a) b()", "if (a) b()", "if (a) b()", "var a", "if (a) b()", "if (a) b()",
      "return a", "if (a) b()", "var a", "var a", "if (a) b()", "var a", "return a",
      "if (a) b()", "return a", "var a", "if (a) b()", "return a", "return a",
      "if (a) b()">>
RepSample(engine) == IF engine = "python" THEN PyRepSample ELSE JsRepSample
RepPool(engine) == IF engine = "python" THEN {"a = 1", "pass"} ELSE {"var a", "return a"}

(* analyze_*_code(text)[0]['pattern_repetition_score'], in units of        *)
(* 1 / UNIT                                                                *)
RepScore(engine, lines) ==
    Call("ExtractAllFeatures", <<engine, JoinLines(lines)>>)["pattern_repetition_score"].n

RepOf(engine, a, b, score_a, score_b) ==
    [engine |-> engine, a |-> a, b |-> b, score_a |-> score_a, score_b |-> score_b]

RepInit ==
    /\ req = ReqIdle
    /\ cw = "python"
    /\ cv = BaseVector(cw)
    /\ cres = classify(cv, WeightsOf(cw))
    /\ cprev = [v |-> cv, res |-> cres]
    /\ cedits = 0
    /\ ext = ExtNone
    /\ sig \in {RepOf(engine, <<>>, <<>>, RepScore(engine, <<>>), RepScore(engine, <<>>)) :
                   engine \in {"python", "javascript"}}

(* The next line of the sample at the end of text b.                       *)
RepAppendB ==
    /\ sig.a = <<>>
    /\ Len(sig.b) < Len(RepSample(sig.engine))
    /\ LET b == Append(sig.b, RepSample(sig.engine)[Len(sig.b) + 1])
       IN sig' = RepOf(sig.engine, sig.a, b, sig.score_a, RepScore(sig.engine, b))
    /\ UNCHANGED <<req, cv, cw, cres, cprev, cedits, ext>>

(* One more line at the end of text a, once text b is complete.            *)
RepAppendA(line) ==
    /\ Len(sig.b) = Len(RepSample(sig.engine))
    /\ Len(sig.a) < MaxLinesA
    /\ LET a == Append(sig.a, line)
       IN sig' = RepOf(sig.engine, a, sig.b, RepScore(sig.engine, a), sig.score_b)
    /\ UNCHANGED <<req, cv, cw, cres, cprev, cedits, ext>>

RepNext ==
    \/ RepAppendB
    \/ \E line \in RepPool(sig.engine) : RepAppendA(line)

RepetitionSpec == RepInit /\ [][RepNext]_vars

-----------------------------------------------------------------------------
(* tokenize.tokenize, the generator that tokenize_code of the older Python *)
(* extractor iterates (backend/analyzers/python_analyzer.py lines 19-20,   *)
(* backend/main.py lines 20-21), for texts whose lines end in "\n" and     *)
(* that hold no backslash, no form feed and no string prefix, with decimal *)
(* integers as numbers.  The model yields the strings of the tokens in     *)
(* order (ENCODING and ENDMARKER left out, as lines 21-22 skip them) and   *)
(* whether the generator raised after the last of them.                    *)

TokOps3 == Ops3 \cup {"<<=", ">>="}
TokOps2 == Ops2 \cup {"<<", ">>", "&=", "|=", "^=", "@=", "<>"}
TokOps1 == Ops1 \cup {"^"}

(* readline: the lines of the text, each with its line end.               *)
RECURSIVE ReadLines(_)
ReadLines(code) ==
    IF code = "" THEN <<>>
    ELSE LET e == RunEnd(NotIn({"\n"}), code, 1)
             n == Min2(e, Len(code))
         IN <<SubSeq(code, 1, n)>> \o ReadLines(SubSeq(code, n + 1, Len(code)))

(* The position after the first occurrence of q in line from i on, or 0.   *)
EndOf(line, q, i) ==
    LET ends == {j \in i..(Len(line) - Len(q) + 1) : SubSeq(line, j, j + Len(q) - 1) = q}
    IN IF ends = {} THEN 0 ELSE (CHOOSE j \in ends : \A k \in ends : j <= k) + Len(q)

NoContStr == [q |-> "", text |-> ""]

(* The loop `while pos < max` over one line: the token strings it yields,  *)
(* the bracket level after it and the string it leaves open.               *)
RECURSIVE ScanTokens(_, _, _)
ScanTokens(line, pos, parenlev) ==
    IF pos > Len(line) THEN [toks |-> <<>>, parenlev |-> parenlev, contstr |-> NoContStr]
    ELSE LET start == RunEnd(In({" ", "\t"}), line, pos)
             c == IF start > Len(line) THEN "" ELSE Ch(line, start)
             Yield(token, next, lev) ==
                 LET r == ScanTokens(line, next, lev)
                 IN [r EXCEPT !.toks = <<token>> \o @]
             triple == c \o c \o c
         IN CASE c = "" -> [toks |-> <<>>, parenlev |-> parenlev, contstr |-> NoContStr]
              [] c = "\n" -> Yield("\n", start + 1, parenlev)
              [] c = "#" ->
                    LET e == RunEnd(NotIn({"\n"}), line, start)
                    IN Yield(SubSeq(line, start, e - 1), e, parenlev)
              [] c \in QuoteChars /\ At(line, start, 3) = triple ->
                    LET e == EndOf(line, triple, start + 3)
                    IN IF e # 0 THEN Yield(SubSeq(line, start, e - 1), e, parenlev)
                       ELSE [toks |-> <<>>, parenlev |-> parenlev,
                             contstr |-> [q |-> triple,
                                          text |-> SubSeq(line, start, Len(line))]]
              [] c \in QuoteChars ->
                    LET e == EndOf(line, c, start + 1)
                    IN IF e # 0 THEN Yield(SubSeq(line, start, e - 1), e, parenlev)
                       ELSE Yield(Ch(line, pos), pos + 1, parenlev)
              [] c \in DigitChars ->
                    LET e == IF c = "0" THEN RunEnd(In({"0"}), line, start)
                             ELSE RunEnd(In(DigitChars), line, start)
                    IN Yield(SubSeq(line, start, e - 1), e, parenlev)
              [] c \in NameStartChars ->
                    LET e == RunEnd(Word, line, start)
                    IN Yield(SubSeq(line, start, e - 1), e, parenlev)
              [] At(line, start, 3) \in TokOps3 -> Yield(At(line, start, 3), start + 3, parenlev)
              [] At(line, start, 2) \in TokOps2 -> Yield(At(line, start, 2), start + 2, parenlev)
              [] c \in TokOps1 ->
                    Yield(c, start + 1,
                          IF c \in {"(", "[", "{"} THEN parenlev + 1
                          ELSE IF c \in {")", "]", "}"} THEN parenlev - 1
                          ELSE parenlev)
              [] OTHER -> Yield(Ch(line, pos), pos + 1, parenlev)

(* What the generator has yielded, and whether it then raised.             *)
Yielded(toks, raised) == [tokens |-> toks, raised |-> raised]

(* The tokens after the loop over the lines: the implicit NEWLINE and one  *)
(* DEDENT per open indentation level.                                      *)
AtEndOfInput(last_line, indents) ==
    (IF last_line # "" /\ Ch(last_line, Len(last_line)) # "\n"
        /\ ~StartsWith(Strip(last_line), "#")
     THEN <<"">> ELSE <<>>)
    \o [i \in 1..(Len(indents) - 1) |-> ""]

(* `while column < indents[-1]`: the DEDENT tokens, the levels left and    *)
(* whether IndentationError was raised.                                    *)
RECURSIVE Unindent(_, _)
Unindent(indents, column) ==
    IF column >= indents[Len(indents)]
    THEN [toks |-> <<>>, indents |-> indents, raised |-> FALSE]
    ELSE IF \A i \in 1..Len(indents) : indents[i] # column
    THEN [toks |-> <<>>, indents |-> indents, raised |-> TRUE]
    ELSE LET r == Unindent(SubSeq(indents, 1, Len(indents) - 1), column)
         IN [r EXCEPT !.toks = <<"">> \o @]

(* The loop over the lines of the stream, from line n on.                  *)
RECURSIVE TokenizeFrom(_, _, _, _, _)
TokenizeFrom(lines, n, indents, parenlev, contstr) ==
    LET line == IF n > Len(lines) THEN "" ELSE lines[n]
        last_line == IF n = 1 THEN "" ELSE lines[n - 1]
        Before(toks, r) == [r EXCEPT !.tokens = toks \o @]
        Rest(pos, ind) ==
            LET s == ScanTokens(line, pos, parenlev)
            IN Before(s.toks, TokenizeFrom(lines, n + 1, ind, s.parenlev, s.contstr))
    IN IF contstr.q # ""
       THEN IF line = "" THEN Yielded(<<>>, TRUE)
            ELSE LET e == EndOf(line, contstr.q, 1)
                 IN IF e = 0
                    THEN TokenizeFrom(lines, n + 1, indents, parenlev,
                                      [contstr EXCEPT !.text = @ \o line])
                    ELSE LET s == ScanTokens(line, e, parenlev)
                         IN Before(<<contstr.text \o SubSeq(line, 1, e - 1)>> \o s.toks,
                                 TokenizeFrom(lines, n + 1, indents, s.parenlev, s.contstr))
       ELSE IF parenlev = 0
       THEN IF line = "" THEN Yielded(AtEndOfInput(last_line, indents), FALSE)
            ELSE LET pos == RunEnd(In({" ", "\t"}), line, 1)
                     column == IndentCol(line, 1, 0)
                 IN IF pos > Len(line) THEN Yielded(AtEndOfInput(last_line, indents), FALSE)
                    ELSE IF Ch(line, pos) = "#"
                    THEN LET e == RunEnd(NotIn({"\n"}), line, pos)
                         IN Before(<<SubSeq(line, pos, e - 1), SubSeq(line, e, Len(line))>>,
                                 TokenizeFrom(lines, n + 1, indents, parenlev, contstr))
                    ELSE IF Ch(line, pos) = "\n"
                    THEN Before(<<SubSeq(line, pos, Len(line))>>,
                              TokenizeFrom(lines, n + 1, indents, parenlev, contstr))
                    ELSE IF column > indents[Len(indents)]
                    THEN Before(<<SubSeq(line, 1, pos - 1)>>, Rest(pos, Append(indents, column)))
                    ELSE LET u == Unindent(indents, column)
                         IN IF u.raised THEN Yielded(u.toks, TRUE)
                            ELSE Before(u.toks, Rest(pos, u.indents))
       ELSE IF line = "" THEN Yielded(<<>>, TRUE)
            ELSE Rest(1, indents)

(* tokenize.tokenize(BytesIO(self.code.encode('utf-8')).readline)          *)
tokenize_tokenize(code) == TokenizeFrom(ReadLines(code), 1, <<0>>, 0, NoContStr)

-----------------------------------------------------------------------------
(* The older feature extractors (backend/analyzers/python_analyzer.py,     *)
(* backend/analyzers/javascript_analyzer.py, and CodeFeatureExtractor of   *)
(* backend/main.py, which is the Python one under another name): an object *)
(* that keeps its tokens and their counts from call to call.               *)

(* math.log(p, 2) and the entropy, in units of 1 / LOG_ONE.                *)
LOG_ONE == 10000

(* The largest k with num * 2^k <= den.                                    *)
RECURSIVE Log2Floor(_, _)
Log2Floor(num, den) == IF 2 * num <= den THEN 1 + Log2Floor(2 * num, den) ELSE 0

RECURSIVE Pow2(_)
Pow2(k) == IF k = 0 THEN 1 ELSE 2 * Pow2(k - 1)

(* The binary digits of log2 of the mantissa m / LOG_ONE in [1, 2), by     *)
(* repeated squaring; w is the weight of the next digit.                   *)
RECURSIVE Log2Frac(_, _)
Log2Frac(m, w) ==
    IF w = 0 THEN 0
    ELSE LET sq == (m * m) \div LOG_ONE
         IN IF sq >= 2 * LOG_ONE THEN w + Log2Frac(sq \div 2, w \div 2)
            ELSE Log2Frac(sq, w \div 2)

(* math.log(p, 2) for p = num / den in (0, 1]                              *)
MathLog2(num, den) ==
    LET k == Log2Floor(num, den)
        m == (den * LOG_ONE) \div (num * Pow2(k))
    IN 0 - (k * LOG_ONE + Log2Frac(m, LOG_ONE \div 2))

(* self.token_counts: the dict as its items in insertion order.            *)
CountOf(token_counts, token_str) ==
    LET hits == SelectSeq(token_counts, LAMBDA item : item.token = token_str)
    IN IF hits = <<>> THEN 0 ELSE hits[1].count

(* Mutant of CountToken: a token seen again has its count set to 1.        *)
CountTokenReset(token_counts, token_str) ==
    IF CountOf(token_counts, token_str) = 0
    THEN Append(token_counts, [token |-> token_str, count |-> 1])
    ELSE [i \in 1..Len(token_counts) |->
             IF token_counts[i].token = token_str
             THEN [token_counts[i] EXCEPT !.count = 1]
             ELSE token_counts[i]]

(* self.token_counts[token_str] = self.token_counts.get(token_str, 0) + 1  *)
CountToken(token_counts, token_str) ==
    IF CountOf(token_counts, token_str) = 0
    THEN Append(token_counts, [token |-> token_str, count |-> 1])
    ELSE [i \in 1..Len(token_counts) |->
             IF token_counts[i].token = token_str
             THEN [token_counts[i] EXCEPT !.count = @ + 1]
             ELSE token_counts[i]]

(* The body of the loop over the tokens, from the i-th token on.           *)
RECURSIVE AppendTokens(_, _, _)
AppendTokens(self, toks, i) ==
    IF i > Len(toks) THEN self
    ELSE AppendTokens([self EXCEPT !.tokens = Append(@, toks[i]),
                                   !.token_counts = CountToken(@, toks[i])],
                      toks, i + 1)

(* Mutant of calculate_token_entropy: the loop leaves out the last item of  *)
(* token_counts.                                                           *)
EntropySkipsLast(tokens, token_counts) ==
    LET total == Len(tokens)
    IN IF total = 0 THEN 0
       ELSE 0 - SeqSum([i \in 1..(Len(token_counts) - 1) |->
                           (token_counts[i].count * MathLog2(token_counts[i].count, total))
                           \div total])

(* calculate_token_entropy                                                 *)
calculate_token_entropy(tokens, token_counts) ==
    LET total == Len(tokens)
    IN IF total = 0 THEN 0
       ELSE 0 - SeqSum([i \in 1..Len(token_counts) |->
                           (token_counts[i].count * MathLog2(token_counts[i].count, total))
                           \div total])

-----------------------------------------------------------------------------
(* esprima (imported at backend/analyzers/javascript_analyzer.py line 4)   *)
(* is not part of the repository.  Its results enter as data: for each     *)
(* sample text the token values of esprima.tokenize and the tree of        *)
(* esprima.parseScript after json.loads(json.dumps(...)) (line 112), in    *)
(* the ESTree format, or the fact that the call raises.                    *)

(* JSON values: a dict as its items in order, a list, or anything else.    *)
JDict(items) == [j |-> "dict", items |-> items]
JList(items) == [j |-> "list", items |-> items]
JScalar == [j |-> "scalar", items |-> <<>>]
Item(key, value) == [key |-> key, value |-> value]

(* A node of the tree: a dict that has the key 'type', its location and    *)
(* its other items.                                                        *)
JLoc == JDict(<<Item("start", JDict(<<Item("line", JScalar), Item("column", JScalar)>>)),
               Item("end", JDict(<<Item("line", JScalar), Item("column", JScalar)>>))>>)
JNode(type, items) ==
    [j |-> "dict", type |-> type,
     items |-> <<Item("type", JScalar)>> \o items
               \o <<Item("range", JList(<<JScalar, JScalar>>)), Item("loc", JLoc)>>]
JIdentifier == JNode("Identifier", <<Item("name", JScalar)>>)
JBlock(body) == JNode("BlockStatement", <<Item("body", JList(body))>>)
JProgram(body) ==
    JNode("Program", <<Item("body", JList(body)), Item("sourceType", JScalar)>>)
JExpressionStatement(expression) ==
    JNode("ExpressionStatement", <<Item("expression", expression)>>)

(* isinstance(v, dict) and 'type' in v                                     *)
IsTypedDict(v) == v.j = "dict" /\ "type" \in DOMAIN v

EsprimaRaises == [ok |-> FALSE, n |-> JScalar]
EsprimaTree(tree) == [ok |-> TRUE, n |-> tree]

(* for (;;) { try { a } catch (e) { } }                                    *)
JsForTry ==
    JProgram(<<JNode("ForStatement",
                 <<Item("init", JScalar), Item("test", JScalar), Item("update", JScalar),
                   Item("body",
                        JBlock(<<JNode("TryStatement",
                                   <<Item("block", JBlock(<<JExpressionStatement(JIdentifier)>>)),
                                     Item("handler",
                                          JNode("CatchClause",
                                                <<Item("param", JIdentifier),
                                                  Item("body", JBlock(<<>>))>>)),
                                     Item("finalizer", JScalar)>>)>>))>>)>>)

(* f = x => x                                                              *)
JsArrow ==
    JProgram(<<JExpressionStatement(
                 JNode("AssignmentExpression",
                       <<Item("operator", JScalar), Item("left", JIdentifier),
                         Item("right",
                              JNode("ArrowFunctionExpression",
                                    <<Item("id", JScalar), Item("params", JList(<<JIdentifier>>)),
                                      Item("body", JIdentifier), Item("generator", JScalar),
                                      Item("expression", JScalar),
                                      Item("async", JScalar)>>))>>))>>)

(* async function g() { for (a of b) ; do ; while (a) }                    *)
JsAsyncLoops ==
    JProgram(<<JNode("FunctionDeclaration",
                 <<Item("id", JIdentifier), Item("params", JList(<<>>)),
                   Item("body",
                        JBlock(<<JNode("ForOfStatement",
                                       <<Item("left", JIdentifier), Item("right", JIdentifier),
                                         Item("body", JNode("EmptyStatement", <<>>))>>),
                                 JNode("DoWhileStatement",
                                       <<Item("body", JNode("EmptyStatement", <<>>)),
                                         Item("test", JIdentifier)>>)>>)),
                   Item("generator", JScalar), Item("expression", JScalar),
                   Item("async", JScalar)>>)>>)

(* a = function () { while (a) for (k in b) ; }                            *)
JsAnonymous ==
    JProgram(<<JExpressionStatement(
                 JNode("AssignmentExpression",
                       <<Item("operator", JScalar), Item("left", JIdentifier),
                         Item("right",
                              JNode("FunctionExpression",
                                    <<Item("id", JScalar), Item("params", JList(<<>>)),
                                      Item("body",
                                           JBlock(<<JNode("WhileStatement",
                                                     <<Item("test", JIdentifier),
                                                       Item("body",
                                                            JNode("ForInStatement",
                                                                  <<Item("left", JIdentifier),
                                                                    Item("right", JIdentifier),
                                                                    Item("body", JNode("EmptyStatement", <<>>)),
                                                                    Item("each", JScalar)>>))>>)>>)),
                                      Item("generator", JScalar), Item("expression", JScalar),
                                      Item("async", JScalar)>>))>>))>>)

(* The sample texts with what esprima returns for them.                    *)
EsprimaSamples ==
    { [code |-> "", tokens |-> Yielded(<<>>, FALSE), ast |-> EsprimaTree(JProgram(<<>>))],
      [code |-> "for (;;) { try { a } catch (e) { } }\n",
       tokens |-> Yielded(<<"for", "(", ";", ";", ")", "{", "try", "{", "a", "}", "catch",
                            "(", "e", ")", "{", "}", "}">>, FALSE),
       ast |-> EsprimaTree(JsForTry)],
      [code |-> "f = x => x\n// f\n",
       tokens |-> Yielded(<<"f", "=", "x", "=>", "x">>, FALSE),
       ast |-> EsprimaTree(JsArrow)],
      [code |-> "async function g() { for (a of b) ; do ; while (a) }\n",
       tokens |-> Yielded(<<"async", "function", "g", "(", ")", "{", "for", "(", "a", "of",
                            "b", ")", ";", "do", ";", "while", "(", "a", ")", "}">>, FALSE),
       ast |-> EsprimaTree(JsAsyncLoops)],
      [code |-> "a = function () { while (a) for (k in b) ; }\n",
       tokens |-> Yielded(<<"a", "=", "function", "(", ")", "{", "while", "(", "a", ")",
                            "for", "(", "k", "in", "b", ")", ";", "}">>, FALSE),
       ast |-> EsprimaTree(JsAnonymous)],
      [code |-> ";;;\n",
       tokens |-> Yielded(<<";", ";", ";">>, FALSE),
       ast |-> EsprimaTree(JProgram(<<JNode("EmptyStatement", <<>>),
                                      JNode("EmptyStatement", <<>>),
                                      JNode("EmptyStatement", <<>>)>>))],
      [code |-> "function (\n", tokens |-> Yielded(<<"function", "(">>, FALSE),
       ast |-> EsprimaRaises],
      [code |-> "a = 'b\n", tokens |-> Yielded(<<>>, TRUE), ast |-> EsprimaRaises] }

(* JavaScriptFeatureExtractor.ast_features: the zero features              *)
JsLegacyZero ==
    [function_count |-> 0, loop_count |-> 0, try_catch_count |-> 0, max_depth |-> 0]

(* The values that `for key in node` descends into, in order: a dict that  *)
(* has a type, or the dicts that have one in a list.                       *)
ChildDicts(node) ==
    Flatten([i \in 1..Len(node.items) |->
               LET v == node.items[i].value
               IN IF IsTypedDict(v) THEN <<v>>
                  ELSE IF v.j = "list"
                  THEN SelectSeq(v.items, LAMBDA item : IsTypedDict(item))
                  ELSE <<>>])

RECURSIVE traverse_ast(_, _, _)
RECURSIVE TraverseChildren(_, _, _, _)

(* traverse_ast(node, depth): `features` is the dict the closure updates.  *)
traverse_ast(node, depth, features) ==
    IF node.items = <<>> THEN features
    ELSE LET counted ==
               [ function_count  |-> features.function_count
                                     + IF node.type \in {"FunctionDeclaration", "FunctionExpression",
                                                         "ArrowFunctionExpression"}
                                       THEN 1 ELSE 0,
                 loop_count      |-> features.loop_count
                                     + IF node.type \in {"ForStatement", "ForInStatement",
                                                         "ForOfStatement", "WhileStatement",
                                                         "DoWhileStatement"}
                                       THEN 1 ELSE 0,
                 try_catch_count |-> features.try_catch_count
                                     + IF node.type = "TryStatement" THEN 1 ELSE 0,
                 max_depth       |-> Max2(features.max_depth, depth) ]
         IN TraverseChildren(ChildDicts(node), 1, depth + 1, counted)

(* traverse_ast(node[key], depth + 1) / traverse_ast(item, depth + 1)      *)
TraverseChildren(children, i, depth, features) ==
    IF i > Len(children) THEN features
    ELSE TraverseChildren(children, i + 1, depth, traverse_ast(children[i], depth, features))

(* JavaScriptFeatureExtractor.ast_features, given what parseScript did     *)
js_ast_features(parsed) ==
    IF ~parsed.ok THEN JsLegacyZero ELSE traverse_ast(parsed.n, 0, JsLegacyZero)

-----------------------------------------------------------------------------
(* The extractor object and its methods.                                   *)

MaxCalls == 3    \* calls of tokenize_code / extract_features on one object

(* Texts for the older Python extractor: without tokens, one token         *)
(* repeated, loops, handlers and the kinds of function definition, and     *)
(* texts whose tokenization fails at the end or in the middle.             *)
LegacyPyCodes ==
    { "", "\n\n", "x = 1\n", "pass\npass\n", "# a note\nx = 'x'\n",
      "for i in x:\n    try:\n        a = 1\n    except:\n        pass\n",
      "f = lambda x: x\n",
      "async def f():\n    async for i in x:\n        pass\n",
      "while a:\n    def g():\n        pass\n",
      "x = (1\n", "x = '''a\n", "def f():\n    a = 1\n  b = 2\n" }

(* __init__; `raised` is whether the last tokenize_code caught an          *)
(* exception, `returned` what the last call returned (<<>>: None).         *)
NewExtractor(kind, code) ==
    [ kind |-> kind, code |-> code, lines |-> SplitLines(code),
      tokens |-> <<>>, token_counts |-> <<>>,
      calls |-> 0, raised |-> FALSE, returned |-> <<>> ]


RECURSIVE Method(_, _)

(* What esprima did with the text.                                         *)
EsprimaOf(code) == CHOOSE s \in EsprimaSamples : s.code = code

(* One new extractor per text.                                             *)
Extractors ==
    {NewExtractor("python", code) : code \in LegacyPyCodes}
    \cup {NewExtractor("javascript", s.code) : s \in EsprimaSamples}

(* tokenize_code: the tokens the generator (Python) or the returned list   *)
(* (JavaScript) delivers are appended and counted one by one; an exception *)
(* ends the loop and is caught.                                            *)
tokenize_code(self) ==
    LET stream == IF self.kind = "python" THEN Method("tokenize", <<self.code>>)
                  ELSE EsprimaOf(self.code).tokens
    IN [AppendTokens(self, stream.tokens, 1) EXCEPT !.raised = stream.raised]

(* extract_features                                                        *)
extract_features(self) ==
    LET after == tokenize_code(self)
        token_entropy == calculate_token_entropy(after.tokens, after.token_counts)
        ratio == Method("comment_ratio", <<self.kind, self.code>>)
        total_lines == Len(self.lines)
    IN [after EXCEPT !.returned =
          IF self.kind = "python"
          THEN LET ast_feats == Method("ast_features", <<self.code>>)
               IN [ token_entropy |-> token_entropy, comment_ratio |-> ratio,
                    function_count |-> ast_feats.function_count,
                    loop_count |-> ast_feats.loop_count,
                    try_except_count |-> ast_feats.try_except_count,
                    max_ast_depth |-> ast_feats.max_depth,
                    total_lines |-> total_lines ]
          ELSE LET ast_feats == Method("js_ast_features", <<EsprimaOf(self.code).ast>>)
               IN [ token_entropy |-> token_entropy, comment_ratio |-> ratio,
                    function_count |-> ast_feats.function_count,
                    loop_count |-> ast_feats.loop_count,
                    try_catch_count |-> ast_feats.try_catch_count,
                    max_ast_depth |-> ast_feats.max_depth,
                    total_lines |-> total_lines ]]

(* Method(k, a): the library call or method k applied to the arguments a.  *)
Method(k, a) ==
    CASE k = "tokenize" -> tokenize_tokenize(a[1])
      [] k = "comment_ratio" -> comment_ratio(a[1], a[2])
      [] k = "ast_features" -> ast_features(a[1])
      [] k = "js_ast_features" -> js_ast_features(a[1])
      [] k = "tokenize_code" -> tokenize_code(a[1])
      [] k = "extract_features" -> extract_features(a[1])

(* An extractor is constructed on one of the texts.                        *)
LegacyInit ==
    /\ req = ReqIdle /\ cw = "python" /\ cv = BaseVector(cw)
    /\ cres = classify(cv, WeightsOf(cw)) /\ cprev = [v |-> cv, res |-> cres]
    /\ cedits = 0 /\ sig = SigNone
    /\ ext \in Extractors

(* extractor.tokenize_code()                                               *)
TokenizeCode ==
    /\ ext.calls < MaxCalls
    /\ ext' = [Method("tokenize_code", <<ext>>) EXCEPT !.calls = @ + 1, !.returned = <<>>]
    /\ UNCHANGED <<req, cv, cw, cres, cprev, cedits, sig>>

(* extractor.extract_features()                                            *)
ExtractFeatures ==
    /\ ext.calls < MaxCalls
    /\ ext' = [Method("extract_features", <<ext>>) EXCEPT !.calls = @ + 1]
    /\ UNCHANGED <<req, cv, cw, cres, cprev, cedits, sig>>

LegacyNext == TokenizeCode \/ ExtractFeatures

LegacySpec == LegacyInit /\ [][LegacyNext]_vars

-----------------------------------------------------------------------------
(* The classifiers of the older analyzers: five rules, one point each.     *)
(* token_entropy is in units of 1 / LOG_ONE and comment_ratio in units of  *)
(* 1 / UNIT; function_count / total_lines > c is compared exactly, by      *)
(* cross-multiplication.                                                   *)

(* backend/analyzers/python_analyzer.py classify_python_code               *)
classify_python_code(features) ==
    LET s1 == IF features.token_entropy < 35 * (LOG_ONE \div 10) THEN 1 ELSE 0
        s2 == IF features.comment_ratio < 5 * (UNIT \div 100)
                 \/ features.comment_ratio > 2 * (UNIT \div 10) THEN 1 ELSE 0
        s3 == IF features.total_lines > 0
                 /\ features.function_count * 10 > features.total_lines THEN 1 ELSE 0
        s4 == IF features.try_except_count = 0 THEN 1 ELSE 0
        s5 == IF features.max_ast_depth < 5 THEN 1 ELSE 0
        score == s1 + s2 + s3 + s4 + s5
    IN IF score >= 3 THEN "AI-Generated Code" ELSE "Likely Human-Written Code"

(* backend/analyzers/javascript_analyzer.py classify_javascript_code       *)
classify_javascript_code(features) ==
    LET s1 == IF features.token_entropy < 38 * (LOG_ONE \div 10) THEN 1 ELSE 0
        s2 == IF features.comment_ratio < 3 * (UNIT \div 100)
                 \/ features.comment_ratio > 25 * (UNIT \div 100) THEN 1 ELSE 0
        s3 == IF features.total_lines > 0
                 /\ features.function_count * 100 > 15 * features.total_lines
              THEN 1 ELSE 0
        s4 == IF features.try_catch_count = 0 THEN 1 ELSE 0
        s5 == IF features.max_ast_depth < 4 THEN 1 ELSE 0
        score == s1 + s2 + s3 + s4 + s5
    IN IF score >= 3 THEN "AI-Generated Code" ELSE "Likely Human-Written Code"

(* A variant of the rule count that asks for more than three points.       *)
ClassifyCodeStrict(features) ==
    LET s1 == IF features.token_entropy < 35 * (LOG_ONE \div 10) THEN 1 ELSE 0
        s2 == IF features.comment_ratio < 5 * (UNIT \div 100)
                 \/ features.comment_ratio > 2 * (UNIT \div 10) THEN 1 ELSE 0
        s3 == IF features.total_lines > 0
                 /\ features.function_count * 10 > features.total_lines THEN 1 ELSE 0
        s4 == IF features.try_except_count = 0 THEN 1 ELSE 0
        s5 == IF features.max_ast_depth < 5 THEN 1 ELSE 0
        score == s1 + s2 + s3 + s4 + s5
    IN IF score > 3 THEN "AI-Generated Code" ELSE "Likely Human-Written Code"

(* backend/main.py classify_code                                           *)
classify_code(features) ==
    LET s1 == IF features.token_entropy < 35 * (LOG_ONE \div 10) THEN 1 ELSE 0
        s2 == IF features.comment_ratio < 5 * (UNIT \div 100)
                 \/ features.comment_ratio > 2 * (UNIT \div 10) THEN 1 ELSE 0
        s3 == IF features.total_lines > 0
                 /\ features.function_count * 10 > features.total_lines THEN 1 ELSE 0
        s4 == IF features.try_except_count = 0 THEN 1 ELSE 0
        s5 == IF features.max_ast_depth < 5 THEN 1 ELSE 0
        score == s1 + s2 + s3 + s4 + s5
    IN IF score >= 3 THEN "AI-Generated Code" ELSE "Likely Human-Written Code"

(* Classifier harness: a vector of the kind extract_features returns, with *)
(* values on both sides of every threshold of the three classifiers, is    *)
(* given to the classifier of its module.                                  *)
LegacyModules == {"python", "javascript", "main"}
LegacyEntropies == {0, 34999, 35000, 37999, 38000}
LegacyCommentRatios == {0, 29, 30, 49, 50, 200, 201, 250, 251}
LegacyFunctionCounts == {0, 1, 3}
LegacyTotalLines == {0, 6, 10, 20}
LegacyTryCounts == {0, 1}
LegacyDepths == {0, 3, 4, 5}

LegacyVector(kind, entropy, ratio, functions, lines, tries, depth) ==
    IF kind = "javascript"
    THEN [ token_entropy |-> entropy, comment_ratio |-> ratio,
           function_count |-> functions, loop_count |-> 0,
           try_catch_count |-> tries, max_ast_depth |-> depth, total_lines |-> lines ]
    ELSE [ token_entropy |-> entropy, comment_ratio |-> ratio,
           function_count |-> functions, loop_count |-> 0,
           try_except_count |-> tries, max_ast_depth |-> depth, total_lines |-> lines ]

LegacyClsInit ==
    /\ req = ReqIdle /\ cw = "python" /\ cv = BaseVector(cw)
    /\ cres = classify(cv, WeightsOf(cw)) /\ cprev = [v |-> cv, res |-> cres]
    /\ cedits = 0 /\ sig = SigNone
    /\ \E kind \in LegacyModules, entropy \in LegacyEntropies,
          ratio \in LegacyCommentRatios, functions \in LegacyFunctionCounts,
          lines \in LegacyTotalLines, tries \in LegacyTryCounts, depth \in LegacyDepths :
          ext = [ kind |-> kind, label |-> "",
                  features |-> LegacyVector(kind, entropy, ratio, functions, lines,
                                            tries, depth) ]

(* classification = classify_*_code(features)                              *)
LegacyClassify ==
    /\ ext.label = ""
    /\ ext' = [ext EXCEPT !.label =
                  CASE ext.kind = "python" -> classify_python_code(ext.features)
                    [] ext.kind = "javascript" -> classify_javascript_code(ext.features)
                    [] ext.kind = "main" -> classify_code(ext.features)]
    /\ UNCHANGED <<req, cv, cw, cres, cprev, cedits, sig>>

LegacyClsNext == LegacyClassify

LegacyClassifySpec == LegacyClsInit /\ [][LegacyClsNext]_vars

-----------------------------------------------------------------------------
(* What the claims below compare the requests with: per text of the        *)
(* catalogue, the verdict of ast.parse, the signals of each extractor run  *)
(* on its own, and the result of an analysis run alone.                    *)

ParseOk == [code \in Codes |-> ast_parse(code).ok]

LegacyAstFeatures == [code \in Codes |-> ast_features(code)]

Labels == {"AI-Generated Code", "Human-Written Code", "Uncertain (Mixed Signals)"}

(* The vector without the key that analyze_*_code adds                     *)
WithoutConfidence(features) ==
    [k \in DOMAIN features \ {"confidence"} |-> features[k]]

(* analyze_python_code(code) / analyze_javascript_code(code) as one call   *)
Analyze(engine, code) ==
    LET features == ExtractAllFeatures(engine, code)
        res == classify(features, WeightsOf(engine))
    IN [features |-> AddConfidenceKey(features, res.probability),
        classification |-> res.classification]

Alone == [engine \in {"python", "javascript"} |-> [code \in Codes |-> Analyze(engine, code)]]

(* The request has its analyzer's vector, before or after classification.  *)
HasVector(q) == q.pc \in {"extracted", "classifier", "classified"}

(* analyze_*_code has returned to the shell.                               *)
Returned(q) == q.pc = "analyzed" \/ (q.pc = "done" /\ q.classification # "")

(* The shell answered with a result, not with an error.                    *)
Answered(q) ==
    /\ q.pc = "done"
    /\ q.response.status = (IF q.shell = "cli" THEN 0 ELSE 200)

-----------------------------------------------------------------------------
(* C4: the vector that analyze_python_code / analyze_javascript_code       *)
(* returns has a 'confidence' key holding the probability classify         *)
(* computed for that vector, and the label returned is the one the         *)
(* thresholds give that confidence; classify leaves the vector as it was,  *)
(* and the key is absent while classify runs, so it never enters the       *)
(* score.                                                                  *)
C4_Returned ==
    \A r \in 1..NReq :
        LET q == req[r]
            res == classify(WithoutConfidence(q.features), WeightsOf(q.engine))
        IN /\ Returned(q) =>
                /\ "confidence" \in DOMAIN q.features
                /\ q.features.confidence = ProbV(res.probability)
                /\ q.classification = res.classification
                /\ q.classification = LabelOf(q.features.confidence.n)
                /\ WithoutConfidence(q.features) = FeaturesOf(q.engine, q.code)
           /\ HasVector(q) => "confidence" \notin DOMAIN q.features

C4_ClassifyStep ==
    \A r \in 1..NReq :
        (req[r].pc = "classifier" /\ req'[r].pc = "classified") =>
            /\ req'[r].features = req[r].features
            /\ "confidence" \notin DOMAIN req[r].weights
            /\ req'[r].confidence = classify(req[r].features, req[r].weights).probability

(* C4, as one property: every state satisfies C4_Returned (the returned   *)
(* vector carries classify's probability and the label of the thresholds)  *)
(* and every classify step satisfies C4_ClassifyStep (vector unchanged).   *)
C4_ConfidenceAfterClassify == [](C4_Returned) /\ [][C4_ClassifyStep]_vars

(* A request returned 'Human-Written Code' with its confidence in the      *)
(* vector, below 0.3.                                                      *)
C4_Witness ==
    \E r \in 1..NReq :
        /\ Returned(req[r])
        /\ req[r].classification = "Human-Written Code"
        /\ "confidence" \in DOMAIN req[r].features
        /\ req[r].features.confidence.n < HUMAN_THRESHOLD

(* C5: a request's vector, label and response are those of an analysis of  *)
(* its own code under its own language run alone, whatever requests came   *)
(* before and whatever the other request is doing; a step of one request   *)
(* changes nothing of the other, and the weight table a classifier was     *)
(* built with stays as built.                                              *)
C5_OwnInputs ==
    \A r \in 1..NReq :
        LET q == req[r]
            alone == Alone[q.engine][q.code]
            returned == [q EXCEPT !.features = alone.features,
                                  !.classification = alone.classification]
        IN /\ q.engine # "" =>
                q.engine = (IF q.shell = "cli" THEN q.language.s ELSE Lower(q.language.s))
           /\ HasVector(q) => q.features = WithoutConfidence(alone.features)
           /\ Returned(q) =>
                /\ q.features = alone.features
                /\ q.classification = alone.classification
           /\ Answered(q) =>
                q.response = (IF q.shell = "cli" THEN CliResponse(returned)
                              ELSE ApiResponse(returned))
           /\ q.pc \in {"classifier", "classified", "analyzed"} =>
                q.weights = WeightsOf(q.engine)

C5_OwnStep ==
    \A r \in 1..NReq :
        req'[r] # req[r] =>
            /\ \A o \in 1..NReq \ {r} : req'[o] = req[o]
            /\ (req[r].pc \in {"classifier", "classified", "analyzed"}
                  /\ req'[r].pc # "idle") => req'[r].weights = req[r].weights

(* C5, as one property: every state satisfies C5_OwnInputs (each request   *)
(* has the result of its own inputs run alone) and every step satisfies    *)
(* C5_OwnStep (a step changes one request only, never a weight table).     *)
C5_Independent == [](C5_OwnInputs) /\ [][C5_OwnStep]_vars

(* One request has been answered while another, for the same engine and a  *)
(* different text, is between classification and its return.               *)
C5_Witness ==
    \E r, o \in 1..NReq :
        /\ r # o
        /\ Answered(req[r])
        /\ req[o].pc = "classified"
        /\ req[o].engine = req[r].engine
        /\ req[o].code # req[r].code

(* The language as the shell compares it: lowered by the API, as given by  *)
(* the CLI.                                                                *)
Compared(q) == IF q.shell = "cli" THEN q.language.s ELSE Lower(q.language.s)

(* The request is past the shell's dispatch on a language that is a        *)
(* string (and, for the CLI, with both arguments given).                   *)
Dispatched(q) ==
    /\ q.pc \notin {"idle", "received"}
    /\ q.language.t = "str"
    /\ q.shell = "cli" => q.argc >= 3

(* C6: for 'python' exactly the Python analyzer runs, for 'javascript'     *)
(* exactly the JavaScript analyzer; for any other language no analyzer     *)
(* runs and the caller gets the unsupported-language error: from the API   *)
(* status 400 with detail 'Unsupported language: <language>', where        *)
(* internal faults give status 500.                                        *)
C6_Dispatch ==
    \A r \in 1..NReq :
        LET q == req[r]
            message == "Unsupported language: " \o Compared(q)
        IN /\ Dispatched(q) =>
                /\ Compared(q) = "python" => q.engine = "python"
                /\ Compared(q) = "javascript" => q.engine = "javascript"
                /\ Compared(q) \notin {"python", "javascript"} =>
                      /\ q.engine = ""
                      /\ q.features = NoFeatures
                      /\ q.pc = "done"
                      /\ q.response =
                            (IF q.shell = "cli" THEN CliError(message)
                             ELSE [status |-> 400, body |-> [detail |-> message]])
           /\ (q.pc = "done" /\ q.shell \in ApiShells /\ q.language.t # "str") =>
                q.response.status = 500

(* C7: at the API and at the CLI, a language that is 'python' or           *)
(* 'javascript' in any case is dispatched to that analyzer, not rejected.  *)
C7_CaseInsensitive ==
    \A r \in 1..NReq :
        LET q == req[r]
        IN (Dispatched(q) /\ Lower(q.language.s) \in {"python", "javascript"}) =>
              /\ q.engine = Lower(q.language.s)
              /\ q.pc = "done" => Answered(q)

(* The signals of the Python engine that are computed from the tree        *)
PyAstSignals ==
    {"has_main_guard", "has_docstrings", "function_length_variance",
     "nested_function_depth", "uses_comprehensions", "uses_walrus_operator",
     "uses_f_strings", "uses_snake_case_ratio", "single_letter_var_ratio",
     "avg_name_length", "meaningful_name_ratio", "pattern_repetition_score",
     "has_magic_numbers"}

PyExtractorKeys ==
    [code \in Codes |->
        LET lines == SplitLines(code)
            parsed == ast_parse(code)
            nodes == IF parsed.ok THEN ast_walk(parsed.n) ELSE <<>>
        IN DOMAIN PyStructuralPatterns(lines, nodes)
           \cup DOMAIN PyNamingPatterns(nodes)
           \cup DOMAIN PyConsistencyMetrics(code, lines, nodes)
           \cup DOMAIN PyCodeSmellIndicators(code, lines, nodes)
           \cup DOMAIN PyAiSpecificPatterns(code, lines)]

(* C9: the keys of the vector of an engine are the same for every text,    *)
(* parsed or not ('confidence' joins them on return); the parse-failure    *)
(* default vector has exactly the keys of the five Python extractors; and  *)
(* every key of an engine's weight table is a key of its vector.           *)
C9_KeyPresence ==
    \A r \in 1..NReq :
        LET q == req[r]
        IN /\ HasVector(q) => DOMAIN q.features = DOMAIN BaseVector(q.engine)
           /\ Returned(q) =>
                DOMAIN q.features = DOMAIN BaseVector(q.engine) \cup {"confidence"}
           /\ \A o \in 1..NReq :
                (HasVector(q) /\ HasVector(req[o]) /\ req[o].engine = q.engine) =>
                    DOMAIN req[o].features = DOMAIN q.features
           /\ (q.engine = "python" /\ HasVector(q)) =>
                /\ DOMAIN _get_default_features = PyExtractorKeys[q.code]
                /\ DOMAIN _get_default_features =
                      DOMAIN PyStructuralInit \cup DOMAIN PyNamingInit
                      \cup DOMAIN PyConsistencyInit \cup DOMAIN PySmellInit
                      \cup DOMAIN PyAiInit
           /\ q.pc \in {"classifier", "classified", "analyzed"} =>
                DOMAIN q.weights \subseteq DOMAIN q.features

(* Two requests hold vectors of the Python engine, one for a text that     *)
(* parsed and one for a text that did not.                                 *)
C9_Witness ==
    \E r, o \in 1..NReq :
        /\ HasVector(req[r]) /\ req[r].engine = "python" /\ ParseOk[req[r].code]
        /\ HasVector(req[o]) /\ req[o].engine = "python" /\ ~ParseOk[req[o].code]
        /\ DOMAIN req[r].features = DOMAIN req[o].features

(* The signals of the Python engine computed from the text or its lines    *)
PyTextSignals ==
    {"has_todo_comments", "has_debug_prints", "has_commented_code", "has_long_lines",
     "has_trailing_whitespace", "indentation_consistency", "quote_consistency",
     "generic_example_score", "placeholder_score", "over_explanation_score"}

(* What the extractors compute for these signals from the text alone       *)
TextSignals ==
    [code \in Codes |->
        LET lines == SplitLines(code)
        IN Update(Update(PyConsistencyMetrics(code, lines, <<>>),
                         PyCodeSmellIndicators(code, lines, <<>>)),
                  PyAiSpecificPatterns(code, lines))]

(* C10: the signals computed from the text or its lines have the value the *)
(* extractors compute from the text, whether or not ast.parse accepts it.  *)
C10_TextSignals ==
    \A r \in 1..NReq :
        LET q == req[r]
        IN (q.engine = "python" /\ (HasVector(q) \/ Returned(q))) =>
              \A k \in PyTextSignals : q.features[k] = TextSignals[q.code][k]

-----------------------------------------------------------------------------
(* The signals that are ratios                                             *)
RatioSignals ==
    {"function_style_consistency", "uses_camelCase_ratio", "uses_snake_case_ratio",
     "single_letter_var_ratio", "meaningful_name_ratio", "semicolon_consistency",
     "quote_consistency", "indentation_consistency", "pattern_repetition_score",
     "import_organization_score", "generic_example_score", "placeholder_score",
     "over_explanation_score", "excessive_comments_ratio"}

InUnitInterval(x) == 0 <= x /\ x <= UNIT

(* C11: for every text, the empty string included, every ratio-valued      *)
(* signal of the improved analyzers and the comment_ratio of the older     *)
(* analyzers lie in [0, 1].                                                *)
C11_RatiosInUnitInterval ==
    sig.engine # "none" =>
        /\ \A k \in RatioSignals \cap DOMAIN sig.features :
              /\ sig.features[k].t \in {"float", "int"}
              /\ InUnitInterval(sig.features[k].n)
        /\ InUnitInterval(sig.comment_ratio)

-----------------------------------------------------------------------------
(* The token sequence of the extractor, read without its frequency table.  *)
Occurrences(tokens, t) == Cardinality({i \in 1..Len(tokens) : tokens[i] = t})
DistinctTokens(tokens) == {tokens[i] : i \in 1..Len(tokens)}

(* sum over the distinct tokens t of c_t * log2(c_t), in units of          *)
(* 1 / LOG_ONE                                                             *)
RECURSIVE CountLogSum(_, _)
CountLogSum(tokens, ts) ==
    IF ts = {} THEN 0
    ELSE LET t == CHOOSE x \in ts : TRUE
             c == Occurrences(tokens, t)
         IN c * (0 - MathLog2(1, c)) + CountLogSum(tokens, ts \ {t})

(* -sum_t (c_t / N) * log2(c_t / N), written as                            *)
(* log2(N) - (1 / N) * sum_t c_t * log2(c_t)                               *)
EntropyOfSequence(tokens) ==
    LET N == Len(tokens)
    IN (0 - MathLog2(1, N)) - CountLogSum(tokens, DistinctTokens(tokens)) \div N

(* C12: the token entropy is never negative, is 0 for an empty token       *)
(* sequence and for a sequence of one token value repeated, and for N      *)
(* tokens with counts c_t it is -sum_t (c_t / N) * log2(c_t / N) (here to  *)
(* within 0.005); extract_features returns that value.                     *)
C12_Entropy ==
    LET e == calculate_token_entropy(ext.tokens, ext.token_counts)
    IN /\ e >= 0
       /\ ext.tokens = <<>> => e = 0
       /\ Cardinality(DistinctTokens(ext.tokens)) = 1 => e = 0
       /\ ext.tokens # <<>> =>
             /\ e - EntropyOfSequence(ext.tokens) <= LOG_ONE \div 200
             /\ EntropyOfSequence(ext.tokens) - e <= LOG_ONE \div 200
       /\ ext.returned # <<>> => ext.returned.token_entropy = e

(* One token value repeated, and its entropy returned.                     *)
C12_Witness ==
    /\ Len(ext.tokens) >= 2
    /\ Cardinality(DistinctTokens(ext.tokens)) = 1
    /\ ext.returned # <<>>
    /\ ext.returned.token_entropy = 0

(* C13: in every state of an extractor, after any number of calls of       *)
(* tokenize_code and extract_features, those whose tokenization fails      *)
(* part-way included, the counts of token_counts add up to len(tokens)     *)
(* and each count is the number of occurrences of its token in tokens.     *)
C13_FrequencyTable ==
    /\ SeqSum([i \in 1..Len(ext.token_counts) |-> ext.token_counts[i].count])
          = Len(ext.tokens)
    /\ \A i \in 1..Len(ext.token_counts) :
          ext.token_counts[i].count = Occurrences(ext.tokens, ext.token_counts[i].token)
    /\ \A t \in DistinctTokens(ext.tokens) :
          CountOf(ext.token_counts, t) = Occurrences(ext.tokens, t)
    /\ \A i, j \in 1..Len(ext.token_counts) :
          ext.token_counts[i].token = ext.token_counts[j].token => i = j

(* Two calls or more on one object, the last of which failed part-way.     *)
C13_Witness ==
    /\ ext.calls >= 2
    /\ ext.raised
    /\ ext.tokens # <<>>
    /\ \E i \in 1..Len(ext.token_counts) : ext.token_counts[i].count >= 4

(* C14: whenever tokenizing raises, at whatever point of the token stream, *)
(* tokenize_code catches the error, the token sequence is empty and the    *)
(* token entropy is 0, and extract_features still returns its seven keys.  *)
C14_TokenizationFailure ==
    (ext.calls > 0 /\ ext.raised) =>
        /\ ext.tokens = <<>>
        /\ ext.returned # <<>> =>
              /\ ext.returned.token_entropy = 0
              /\ Cardinality(DOMAIN ext.returned) = 7

-----------------------------------------------------------------------------
(* C1: whenever classify returns, the label is 'AI-Generated Code' exactly *)
(* when probability > 0.7, 'Human-Written Code' exactly when probability   *)
(* < 0.3 and 'Uncertain (Mixed Signals)' otherwise (0.7 and 0.3 themselves *)
(* are Uncertain); the probability is the logistic of score / 10: 0.5 at   *)
(* score 0, within [0, 1], and above 0.7 exactly from score 10 * ln(7/3)   *)
(* = 8.473 on (below 0.3 from -8.473 down).                                *)
C1_LabelThresholds ==
    cres.raised = "" =>
        /\ (cres.classification = "AI-Generated Code") <=> (cres.probability > 7000)
        /\ (cres.classification = "Human-Written Code") <=> (cres.probability < 3000)
        /\ (cres.classification = "Uncertain (Mixed Signals)")
               <=> (cres.probability >= 3000 /\ cres.probability <= 7000)
        /\ cres.probability >= 0 /\ cres.probability <= PROB_ONE
        /\ (cres.score = 0 => cres.probability = 5000)
        /\ (cres.score >= 84800 => cres.probability > 7000)
        /\ (cres.score <= 84700 => cres.probability <= 7000)
        /\ (cres.score <= -84800 => cres.probability < 3000)
        /\ (cres.score >= -84700 => cres.probability >= 3000)

(* C1 witness: classify returned with probability exactly 0.7 and the      *)
(* label Uncertain.                                                        *)
C1_Witness ==
    /\ cedits > 0
    /\ cres.raised = ""
    /\ cres.probability = 7000
    /\ cres.classification = "Uncertain (Mixed Signals)"

(* C2: the score is the sum of weight * value over the signals that are in *)
(* both the vector and the weight table and are not strings, true counting *)
(* as 1.0, false as 0.0 and numbers as themselves.                         *)
C2_Contribution(k) ==
    WeightsOf(cw)[k] *
        (IF cv[k].t = "bool" THEN (IF cv[k] = BoolV(TRUE) THEN UNIT ELSE 0)
         ELSE IF cv[k].t = "int" THEN cv[k].n * UNIT ELSE cv[k].n)

C2_ScoreIsWeightedSum ==
    LET both == {k \in DOMAIN cv \cap DOMAIN WeightsOf(cw) : cv[k].t # "str"}
    IN cres.score = SumOver(both, [k \in both |-> C2_Contribution(k)])

(* C2 witness: a vector holding a string under a weighted key, keys        *)
(* outside the weight table, and a non-zero score.                         *)
C2_Witness ==
    /\ \E k \in DOMAIN cv \cap DOMAIN WeightsOf(cw) : cv[k].t = "str"
    /\ \E k \in DOMAIN cv \ DOMAIN WeightsOf(cw) : TRUE
    /\ cres.score # 0

(* C3: of two vectors that differ in one weighted signal only, the one     *)
(* with the larger value has a probability that is not smaller when the    *)
(* weight is positive (and a label not nearer to Human-Written), and not   *)
(* larger when the weight is negative.                                     *)
C3_Rank(label) ==
    IF label = "AI-Generated Code" THEN 2
    ELSE IF label = "Uncertain (Mixed Signals)" THEN 1 ELSE 0

C3_RaisedKeys ==
    {k \in DOMAIN cv \cap DOMAIN cprev.v \cap DOMAIN WeightsOf(cw) :
        /\ DOMAIN cv = DOMAIN cprev.v
        /\ \A j \in DOMAIN cv \ {k} : cv[j] = cprev.v[j]
        /\ ~NumericValue(cv[k]).skip /\ ~NumericValue(cprev.v[k]).skip
        /\ NumericValue(cv[k]).x > NumericValue(cprev.v[k]).x
        /\ cres.raised = "" /\ cprev.res.raised = ""}

C3_Monotone ==
    \A k \in C3_RaisedKeys :
        /\ WeightsOf(cw)[k] > 0 =>
              /\ cres.probability >= cprev.res.probability
              /\ C3_Rank(cres.classification) >= C3_Rank(cprev.res.classification)
        /\ WeightsOf(cw)[k] < 0 => cres.probability <= cprev.res.probability

(* C3 witness: a positively weighted signal was raised and the label moved *)
(* up to AI-Generated.                                                     *)
C3_Witness ==
    \E k \in C3_RaisedKeys :
        /\ WeightsOf(cw)[k] > 0
        /\ cres.probability > cprev.res.probability
        /\ cres.classification = "AI-Generated Code"
        /\ cprev.res.classification = "Uncertain (Mixed Signals)"

-----------------------------------------------------------------------------
(* C15: the integer `result` of an answer of /basic, /premium or the CLI   *)
(* is 1 exactly when the label classify returned is the AI-generated       *)
(* label, and 0 exactly when it is the human-written label.                *)
C15_ResultInteger ==
    \A r \in 1..NReq :
        LET q == req[r]
        IN Answered(q) =>
              /\ q.response.body.result \in {0, 1}
              /\ q.response.body.result = 1 <=> q.classification = "AI-Generated Code"
              /\ q.response.body.result = 0 <=> q.classification = "Human-Written Code"

-----------------------------------------------------------------------------
(* A vector the extractors of the engine can produce: the keys of the      *)
(* all-default vector, each value of the type the extractor stores,        *)
(* ratios and scores within [0, 1], counts not negative, and               *)
(* function_length_variance (a standard deviation of function lengths)     *)
(* any float that is not negative.                                         *)
C16_Producible(features, lang) ==
    /\ DOMAIN features = DOMAIN BaseVector(lang)
    /\ \A k \in DOMAIN features :
          /\ features[k].t = BaseVector(lang)[k].t
          /\ features[k].n >= 0
          /\ (features[k].t = "float" /\ k # "function_length_variance")
                => features[k].n <= UNIT

(* C16: for every vector the extractors can produce, classify raises no    *)
(* error and yields a probability in [0, 1] and one of the three labels,   *)
(* whatever the value of an unbounded signal such as                       *)
(* function_length_variance.                                               *)
C16_ClassifyTotal ==
    C16_Producible(cv, cw) =>
        /\ cres.raised = ""
        /\ cres.probability >= 0 /\ cres.probability <= PROB_ONE
        /\ cres.classification \in Labels

-----------------------------------------------------------------------------
(* The documents analyze.py writes: an error object, which holds neither a *)
(* result nor signal values, and the result object.                        *)
C17_ErrorObject(response) ==
    response.status = 1 /\ DOMAIN response.body = {"error"}

C17_ResultObject(response) ==
    /\ response.status = 0
    /\ DOMAIN response.body = {"result", "classification", "language", "features"}

(* C17: every run of the CLI writes exactly one JSON document: the error   *)
(* object, with exit status 1, when the arguments are missing, the         *)
(* language is unsupported or an exception occurred, and the result object *)
(* with a normal exit otherwise.  An API request that failed is answered   *)
(* with status 500 and a detail, never with signal values.                 *)
C17_BoundaryFaults ==
    \A r \in 1..NReq :
        LET q == req[r]
        IN /\ (q.pc = "done" /\ q.shell = "cli") =>
                /\ C17_ErrorObject(q.response) \/ C17_ResultObject(q.response)
                /\ (q.argc < 3 \/ q.language.s \notin {"python", "javascript"})
                      => C17_ErrorObject(q.response)
                /\ C17_ResultObject(q.response) => q.classification \in Labels
           /\ (q.pc = "done" /\ q.shell \in ApiShells /\ q.response.status # 200) =>
                /\ q.response.status = 500
                /\ DOMAIN q.response.body = {"detail"}

-----------------------------------------------------------------------------
(* The nodes of a Python tree, level by level below the given nodes.       *)
RECURSIVE C18_PyLevels(_)
C18_PyLevels(nodes) ==
    IF nodes = <<>> THEN <<>>
    ELSE <<nodes>>
         \o C18_PyLevels(Flatten([i \in 1..Len(nodes) |-> iter_child_nodes(nodes[i])]))

(* The nodes nearest below a JSON value: the dicts with a type found in    *)
(* its items, looking through dicts without a type and through lists,      *)
(* nested ones included.                                                   *)
RECURSIVE C18_NodesBelow(_)
C18_NodesBelow(v) ==
    Flatten([i \in 1..Len(v.items) |->
               LET c == IF v.j = "dict" THEN v.items[i].value ELSE v.items[i]
               IN IF IsTypedDict(c) THEN <<c>> ELSE C18_NodesBelow(c)])

(* The nodes of an ESTree, level by level below the given nodes.           *)
RECURSIVE C18_JsLevels(_)
C18_JsLevels(nodes) ==
    IF nodes = <<>> THEN <<>>
    ELSE <<nodes>>
         \o C18_JsLevels(Flatten([i \in 1..Len(nodes) |-> C18_NodesBelow(nodes[i])]))

(* The levels of the tree of the extractor's text; none when parsing       *)
(* raised.                                                                 *)
C18_Levels(self) ==
    IF self.kind = "python"
    THEN LET parsed == ast_parse(self.code)
         IN IF parsed.ok THEN C18_PyLevels(<<parsed.n>>) ELSE <<>>
    ELSE LET parsed == EsprimaOf(self.code).ast
         IN IF parsed.ok THEN C18_JsLevels(<<parsed.n>>) ELSE <<>>

C18_NodesOfType(levels, types) ==
    Len(SelectSeq(Flatten(levels), LAMBDA node : node.type \in types))

-----------------------------------------------------------------------------
(* The definitions, loops and handler blocks of the syntax trees: named,   *)
(* asynchronous and lambda or arrow functions; for, while, for-in, for-of, *)
(* do-while and asynchronous for; try statements.                          *)
C19_FunctionTypes ==
    {"FunctionDef", "AsyncFunctionDef", "Lambda",
     "FunctionDeclaration", "FunctionExpression", "ArrowFunctionExpression"}
C19_LoopTypes ==
    {"For", "AsyncFor", "While",
     "ForStatement", "ForInStatement", "ForOfStatement", "WhileStatement", "DoWhileStatement"}
C19_TryTypes == {"Try", "TryStatement"}

(* C19: in both engines the function counter counts every function,        *)
(* method and lambda-style definition (named, asynchronous, anonymous,     *)
(* lambda or arrow), the loop counter every for, while, for-in, for-of and *)
(* do-while construct, asynchronous for included, and the try counter      *)
(* every exception-handling block.                                         *)
C19_NodeKinds ==
    (ext.kind # "none" /\ ext.returned # <<>>) =>
        LET levels == C18_Levels(ext)
            r == ext.returned
        IN /\ r.function_count = C18_NodesOfType(levels, C19_FunctionTypes)
           /\ r.loop_count = C18_NodesOfType(levels, C19_LoopTypes)
           /\ IF ext.kind = "python"
              THEN r.try_except_count = C18_NodesOfType(levels, C19_TryTypes)
              ELSE r.try_catch_count = C18_NodesOfType(levels, C19_TryTypes)

-----------------------------------------------------------------------------
(* The structural tokens of the text of the signal harness: the types of   *)
(* the statements of the Python tree in the order of ast.walk (none when   *)
(* the text does not parse), the keywords of the JavaScript lines.         *)
C20_Patterns(s) ==
    IF s.engine = "python"
    THEN LET parsed == ast_parse(s.code)
         IN IF parsed.ok THEN PyPatterns(ast_walk(parsed.n)) ELSE <<>>
    ELSE JsPatterns(s.lines)

(* The windows of 3 consecutive tokens, and the number of occurrences of   *)
(* the most frequent one.                                                  *)
C20_Windows(patterns) == [i \in 1..(Len(patterns) - 2) |-> SubSeq(patterns, i, i + 2)]

C20_MostFrequent(patterns) ==
    LET windows == C20_Windows(patterns)
    IN SeqMax([i \in 1..Len(windows) |->
                   Len(SelectSeq(windows, LAMBDA w : w = windows[i]))])

(* C20: pattern_repetition_score is 0 for fewer than 5 structural tokens,  *)
(* and otherwise the number of occurrences of the most frequent window of  *)
(* 3 consecutive tokens divided by the number of windows, n - 2; it lies   *)
(* within [0, 1].                                                          *)
C20_PatternRepetition ==
    sig.engine # "none" =>
        LET patterns == C20_Patterns(sig)
            n == Len(patterns)
            score == sig.features["pattern_repetition_score"].n
        IN /\ score >= 0 /\ score <= UNIT
           /\ n < 5 => score = 0
           /\ n >= 5 => score = Ratio(C20_MostFrequent(patterns), n - 2)

-----------------------------------------------------------------------------
(* The structural tokens of a text of the repetition harness.              *)
C21_Patterns(engine, lines) ==
    C20_Patterns([engine |-> engine, lines |-> lines, code |-> JoinLines(lines)])

(* The number of occurrences of the window that starts at token i.         *)
C21_Occurrences(patterns, i) ==
    LET windows == C20_Windows(patterns)
    IN Len(SelectSeq(windows, LAMBDA w : w = windows[i]))

(* There are windows of 3 tokens and each occurs at least twice / none     *)
(* occurs more than once.                                                  *)
C21_EveryWindowRepeats(patterns) ==
    /\ Len(patterns) >= 3
    /\ \A i \in 1..(Len(patterns) - 2) : C21_Occurrences(patterns, i) >= 2

C21_NoWindowRepeats(patterns) ==
    \A i \in 1..(Len(patterns) - 2) : C21_Occurrences(patterns, i) = 1

(* C21: a text in which every window of 3 structural tokens occurs at      *)
(* least twice has a pattern_repetition_score strictly greater than a text *)
(* of 20 lines in which no window occurs more than once, whatever the      *)
(* lengths of the two token sequences.                                     *)
C21_RepetitionOrdering ==
    "score_b" \in DOMAIN sig =>
        ((/\ Len(sig.b) = Len(RepSample(sig.engine))
          /\ C21_NoWindowRepeats(C21_Patterns(sig.engine, sig.b))
          /\ C21_EveryWindowRepeats(C21_Patterns(sig.engine, sig.a)))
            => sig.score_a > sig.score_b)

-----------------------------------------------------------------------------
(* The occurrences of the three function styles in a JavaScript text:      *)
(* `function name(`, `function (` and `=>`.  No occurrence of one pattern  *)
(* is an occurrence of another.                                            *)
C22_Styles(code) ==
    [ traditional |-> Len(Call("FindAll", <<JsTraditionalFn, code>>)),
      anonymous   |-> Len(Call("FindAll", <<JsAnyFn, code>>)),
      arrow       |-> Len(Call("FindAll", <<Lit("=>"), code>>)) ]

(* C22: function_style_consistency is the largest of the numbers of        *)
(* traditional named, anonymous and arrow function occurrences divided by  *)
(* their sum, 0 when there is no function, and 1.0 when all occurrences    *)
(* are of one style.                                                       *)
C22_FunctionStyle ==
    sig.engine = "javascript" =>
        LET n == C22_Styles(sig.code)
            total == n.traditional + n.anonymous + n.arrow
            score == sig.features["function_style_consistency"].n
        IN /\ total = 0 => score = 0
           /\ total > 0 =>
                 score = Ratio(Max2(n.traditional, Max2(n.anonymous, n.arrow)), total)
           /\ (total > 0 /\ total \in {n.traditional, n.anonymous, n.arrow}) => score = UNIT

-----------------------------------------------------------------------------
(* The terminator-eligible lines of a snippet: stripped, non-blank, not a  *)
(* pure comment and not ending in structural punctuation.  A line ending   *)
(* in the terminator itself is eligible.                                   *)
C23_Eligible(lines) ==
    LET stripped == [i \in 1..Len(lines) |-> Strip(lines[i])]
    IN SelectSeq(stripped, LAMBDA st :
          /\ st # ""
          /\ ~EndsWithAny(st, {"{", "}", ",", "//", "/*", "*/"})
          /\ ~StartsWithAny(st, {"//", "/*", "*"}))

C23_Terminated(lines) ==
    Len(SelectSeq(C23_Eligible(lines), LAMBDA st : EndsWith(st, ";")))

(* C23: semicolon_consistency is max(t, u) / (t + u) over the eligible     *)
(* lines, t of them ending in ';' and u not, and 0.0 when no line is       *)
(* eligible; an equal mix of terminated and unterminated lines scores 0.5. *)
C23_SemicolonConsistency ==
    sig.engine = "javascript" =>
        LET t == C23_Terminated(sig.lines)
            u == Len(C23_Eligible(sig.lines)) - t
            score == sig.features["semicolon_consistency"].n
        IN /\ t + u = 0 => score = 0
           /\ t + u > 0 => score = Ratio(Max2(t, u), t + u)
           /\ (t = u /\ t > 0) => score = UNIT \div 2

-----------------------------------------------------------------------------
(* The text of the signal harness was analysed: a JavaScript text always   *)
(* is, a Python text when it parses.                                       *)
C24_Analysed ==
    sig.engine = "javascript" \/ Call("ast_parse", <<sig.code>>).ok

(* C24: indentation_consistency is 0.0 when no non-blank line is indented; *)
(* otherwise there is a base unit, 2 or 4, such that the signal is 1.0 if  *)
(* every non-zero indent is a multiple of the unit and 0.5 if some indent  *)
(* is not; the signal takes no other value.                                *)
C24_IndentationConsistency ==
    LET indents == Indents(sig.lines)
        score == sig.features["indentation_consistency"].n
    IN /\ score \in {0, UNIT \div 2, UNIT}
       /\ indents = <<>> => score = 0
       /\ (indents # <<>> /\ C24_Analysed) =>
             \E unit \in {2, 4} :
                score = IF \A n \in 1..Len(indents) : indents[n] % unit = 0
                        THEN UNIT ELSE UNIT \div 2

-----------------------------------------------------------------------------
(* The module-export pattern, and the ES import/export pattern, appear in  *)
(* the text.                                                               *)
C25_ModuleExport(code) == Call("Search", <<JsCommonJsPattern, code>>)
C25_EsModule(code) == Call("Search", <<JsEs6Pattern, code>>)

(* The score of a JavaScript feature vector whose module_pattern is m.     *)
C25_ScoreWith(features, m) ==
    classify(Update(features, [module_pattern |-> StrV(m)]), JsWeights).score

(* C25: module_pattern is 'commonjs' whenever a module-export pattern      *)
(* appears, 'es6' exactly when an ES import/export pattern appears and no  *)
(* module-export pattern does, 'none' exactly when neither appears, and    *)
(* the score is the same for every value of module_pattern.                *)
C25_ModulePattern ==
    sig.engine = "javascript" =>
        LET m == sig.features["module_pattern"]
            cjs == C25_ModuleExport(sig.code)
            es == C25_EsModule(sig.code)
        IN /\ m.t = "str" /\ m.s \in {"none", "commonjs", "es6"}
           /\ cjs => m.s = "commonjs"
           /\ (m.s = "es6") <=> (es /\ ~cjs)
           /\ (m.s = "none") <=> (~es /\ ~cjs)
           /\ \A other \in {"none", "commonjs", "es6"} :
                 C25_ScoreWith(sig.features, other) = C25_ScoreWith(sig.features, m.s)

(* A text with both patterns, reported as 'commonjs'.                      *)
C25_Witness ==
    /\ sig.engine = "javascript"
    /\ C25_ModuleExport(sig.code) /\ C25_EsModule(sig.code)
    /\ sig.features["module_pattern"].s = "commonjs"

-----------------------------------------------------------------------------
(* The numbers of generic placeholder-word matches and of template-filler  *)
(* matches in the text of the signal harness (both patterns ignore case).  *)
C26_Generic ==
    Len(Call("FindAll", <<IF sig.engine = "python" THEN PyGenericPattern
                          ELSE JsGenericPattern, Lower(sig.code)>>))
C26_Placeholders ==
    Len(Call("FindAll", <<IF sig.engine = "python" THEN PyPlaceholderPattern
                          ELSE JsPlaceholderPattern, Lower(sig.code)>>))

(* C26: generic_example_score is min(g / max(L, 1), 1.0) for g generic     *)
(* matches in L lines, hence 0.0 without a placeholder word and never      *)
(* above 1.0; placeholder_score is min(p / 10, 1.0) for p template-filler  *)
(* matches, and is 1.0 exactly when p >= 10.                               *)
C26_ExampleScores ==
    LET g == C26_Generic
        p == C26_Placeholders
        L == Len(SplitLines(sig.code))
        generic == sig.features["generic_example_score"].n
        placeholder == sig.features["placeholder_score"].n
    IN /\ generic = Min2((g * UNIT) \div Max2(L, 1), UNIT)
       /\ g = 0 => generic = 0
       /\ generic <= UNIT
       /\ placeholder = Min2((p * UNIT) \div 10, UNIT)
       /\ (placeholder = UNIT) <=> (p >= 10)

-----------------------------------------------------------------------------
(* The number of declared names in the text of the signal harness (none    *)
(* in a Python text that does not parse).                                  *)
C27_Names ==
    IF sig.engine = "python"
    THEN LET parsed == Call("ast_parse", <<sig.code>>)
         IN IF parsed.ok
            THEN Len(OfType(Call("ast_walk", <<parsed.n>>),
                            {"Name", "FunctionDef", "ClassDef"}))
            ELSE 0
    ELSE Len(JsNames(sig.code))

C27_NamingKeys ==
    IF sig.engine = "python"
    THEN {"uses_snake_case_ratio", "single_letter_var_ratio", "avg_name_length",
          "meaningful_name_ratio"}
    ELSE {"uses_camelCase_ratio", "uses_snake_case_ratio", "single_letter_var_ratio",
          "avg_name_length", "meaningful_name_ratio"}

C27_NamingZero == \A k \in C27_NamingKeys : sig.features[k].n = 0

C27_ImportLines ==
    SelectSeq(sig.lines, LAMBDA line : StartsWithAny(Strip(line), {"import ", "from "}))

(* The older extractor of the engine, run on the text.                     *)
C27_Legacy == Method("extract_features", <<NewExtractor(sig.engine, sig.code)>>)

-----------------------------------------------------------------------------
(* The request was analysed by the improved Python engine, its text did    *)
(* not parse, and analyze_python_code has returned.                        *)
C28_Failed(q) == q.engine = "python" /\ ~ParseOk[q.code] /\ Returned(q)

(* C28: in the improved Python engine a text that does not parse gets, for *)
(* any content, all 29 signals at their defaults, score 0, confidence 0.5  *)
(* and the label 'Uncertain (Mixed Signals)'.                              *)
C28_ParseFailureOutcome ==
    \A r \in 1..NReq :
        LET q == req[r]
            signals == WithoutConfidence(q.features)
        IN C28_Failed(q) =>
              /\ Cardinality(DOMAIN signals) = 29
              /\ \A k \in DOMAIN signals : signals[k].t # "str" /\ signals[k].n = 0
              /\ classify(signals, PyWeights).score = 0
              /\ q.features["confidence"].n = PROB_ONE \div 2
              /\ q.classification = "Uncertain (Mixed Signals)"

(* Two texts of different content that do not parse were both analysed by  *)
(* the Python engine and labelled Uncertain.                               *)
C28_Witness ==
    \E r, o \in 1..NReq :
        /\ C28_Failed(req[r]) /\ req[r].code = PY_BROKEN
        /\ C28_Failed(req[o]) /\ req[o].code = GIBBERISH
        /\ req[r].classification = "Uncertain (Mixed Signals)"
        /\ req[o].features["confidence"].n = PROB_ONE \div 2

-----------------------------------------------------------------------------
(* The thresholds of the rules of a module's classifier: entropy (in       *)
(* 1 / LOG_ONE), the accepted band of the comment ratio (in 1 / UNIT), the *)
(* function density as a fraction num / den, and the depth.                *)
C29_Thresholds(kind) ==
    IF kind = "javascript"
    THEN [entropy |-> 38000, low |-> 30, high |-> 250, num |-> 15, den |-> 100, depth |-> 4]
    ELSE [entropy |-> 35000, low |-> 50, high |-> 200, num |-> 10, den |-> 100, depth |-> 5]

(* The rule conditions that hold for a vector.                             *)
C29_Conditions(kind, f) ==
    LET t == C29_Thresholds(kind)
        tries == IF kind = "javascript" THEN f.try_catch_count ELSE f.try_except_count
    IN {c \in {"low entropy", "comment ratio outside the band", "function density",
               "no try block", "shallow tree"} :
          \/ c = "low entropy" /\ f.token_entropy < t.entropy
          \/ c = "comment ratio outside the band"
                /\ ~(t.low <= f.comment_ratio /\ f.comment_ratio <= t.high)
          \/ c = "function density"
                /\ f.total_lines > 0
                /\ f.function_count * t.den > t.num * f.total_lines
          \/ c = "no try block" /\ tries = 0
          \/ c = "shallow tree" /\ f.max_ast_depth < t.depth}

(* The vector the module's extractor returns for the empty snippet.        *)
C29_EmptySnippet(kind) ==
    Method("extract_features",
           <<NewExtractor(IF kind = "javascript" THEN kind ELSE "python", "")>>).returned

-----------------------------------------------------------------------------
(* The signals that the engine declares and no extractor computes.         *)
C30_NeverComputed(engine) ==
    IF engine = "python"
    THEN {"perfect_pep8_score", "uniform_complexity", "naming_consistency_score",
          "spacing_consistency", "nested_function_depth", "inconsistent_returns"}
    ELSE {"perfect_formatting_score", "uniform_complexity", "bracket_style_consistency",
          "has_magic_strings", "has_package_json_refs"}

(* The Python weights without those of perfect_pep8_score and              *)
(* uniform_complexity.                                                     *)
C30_WeightsWithout ==
    Update(PyWeights, [perfect_pep8_score |-> 0, uniform_complexity |-> 0])

(* C30: the declared but never computed signals keep their default, 0 or   *)
(* false, for every text, in the Python and in the JavaScript engine; the  *)
(* Python weights of perfect_pep8_score and uniform_complexity therefore   *)
(* add nothing to the score.                                               *)
C30_DefaultsKept ==
    sig.engine \in {"python", "javascript"} =>
        /\ \A k \in C30_NeverComputed(sig.engine) :
              /\ k \in DOMAIN sig.features
              /\ sig.features[k].t # "str"
              /\ sig.features[k].n = 0
        /\ sig.engine = "python" =>
              /\ PyWeights["perfect_pep8_score"] = 20 /\ PyWeights["uniform_complexity"] = 25
              /\ classify(sig.features, PyWeights).score =
                    classify(sig.features, C30_WeightsWithout).score

(* A Python text that parses and has a score other than 0, with the        *)
(* never computed signals at their defaults.                               *)
C30_Witness ==
    /\ sig.engine = "python"
    /\ Len(sig.lines) >= 2
    /\ C24_Analysed
    /\ classify(sig.features, PyWeights).score # 0
    /\ \A k \in C30_NeverComputed("python") : sig.features[k].n = 0

=============================================================================
